---- MODULE Spec2Model ----
(***************************************************************************)
(* A model of rtsc, a compiler from a small imperative language to ARM32   *)
(* assembly: the parsing combinators and the grammar, the type checker,    *)
(* the code generator, the process-wide label counter, the driver that     *)
(* chains the phases, and the execution of the emitted instructions.       *)
(*                                                                         *)
(* Representation.  An AST node is a tuple whose first element is the      *)
(* variant's name: <<"Number", 1>>, <<"Subtraction", l, r>>,               *)
(* <<"Function", name, type, body>>, ...  A Type is a tuple as well:       *)
(* <<"Number">>, <<"Array", t>>, <<"Function", params, ret>> with params a *)
(* sequence of <<name, type>> pairs in declaration order.  A String of the *)
(* source text is a sequence of one-character strings.  The assembly       *)
(* buffer is the sequence of its instructions, each a tuple holding the    *)
(* mnemonic and the operands of one line of text; the blank lines pushed   *)
(* between them are left out.  A machine word is an integer in             *)
(* -2^31 .. 2^31 - 1, the two's complement reading of its 32 bits.         *)
(***************************************************************************)
EXTENDS Integers, Sequences, FiniteSets, TLC

VARIABLES
    \* the driver (main.rs)
    source, phase, ast, output,
    \* the parser applied to the source and what it returned
    applied, outcome,
    \* the StaticTypeChecker object and the last call of check on it
    locals, functions, current_return_type, checked,
    \* code generation: the output buffer, the caller's Environment, the
    \* process-wide label counter, the per-function environments dropped at
    \* the end of each Function node, the panic message if any, and the
    \* statements of the top-level block emitted so far
    buffer, env, LABEL, frames, panic, emitted,
    \* the machine that runs the emitted code
    program, code, pc, regs, mem, flags, heap, junk, calls, returned, loads, fault,
    \* threads calling make_label
    tpc, tvalue, tlabels

drvVars == <<source, phase, ast, output, applied, outcome>>
tcVars  == <<locals, functions, current_return_type, checked>>
genVars == <<buffer, env, frames, panic, emitted>>
runVars == <<program, code, pc, regs, mem, flags, heap, junk, calls, returned, loads, fault>>
thrVars == <<tpc, tvalue, tlabels>>
vars    == <<drvVars, tcVars, genVars, LABEL, runVars, thrVars>>

-----------------------------------------------------------------------------
(* Helpers on sequences and maps *)

Range(s) == {s[i] : i \in 1..Len(s)}

IndexOf(seq, x) == CHOOSE i \in 1..Len(seq) : seq[i] = x

\* BTreeMap / LinkedHashMap as a function on the set of its keys
EmptyMap == [k \in {} |-> 0]

MapInsert(m, k, v) == [n \in (DOMAIN m) \cup {k} |-> IF n = k THEN v ELSE m[n]]

-----------------------------------------------------------------------------
(* ast.rs: the variants of Ast *)

Null               == <<"Null">>
Undef              == <<"Undefined">>
Num(value)         == <<"Number", value>>
Bool(value)        == <<"Bool", value>>
ArrayLiteral(es)   == <<"ArrayLiteral", es>>
ArrayLookup(a, i)  == <<"ArrayLookup", a, i>>
ArrayLength(a)     == <<"ArrayLength", a>>
Id(name)           == <<"Identifier", name>>
Not(e)             == <<"Not", e>>
Equal(l, r)        == <<"Equal", l, r>>
NotEqual(l, r)     == <<"NotEqual", l, r>>
Add(l, r)          == <<"Addition", l, r>>
Sub(l, r)          == <<"Subtraction", l, r>>
Mul(l, r)          == <<"Multiplication", l, r>>
Div(l, r)          == <<"Division", l, r>>
Call(name, args)   == <<"Call", name, args>>
Return(e)          == <<"Return", e>>
Block(statements)  == <<"Block", statements>>
If(c, t, f)        == <<"If", c, t, f>>
Function(name, function_type, body) == <<"Function", name, function_type, body>>
Var(name, e)       == <<"Var", name, e>>
Assignment(name, e) == <<"Assignment", name, e>>
While(c, body)     == <<"While", c, body>>

-----------------------------------------------------------------------------
(* 32-bit words *)

MaxInt32 == 2147483647

MinInt32 == -MaxInt32 - 1

\* a + b modulo 2^32
Add32(a, b) ==
    IF b > 0 /\ a > MaxInt32 - b
    THEN (a - MaxInt32 - 1) + (b - MaxInt32 - 1)
    ELSE IF b < 0 /\ a < MinInt32 - b
         THEN (a + MaxInt32 + 1) + (b + MaxInt32 + 1)
         ELSE a + b

\* a - b modulo 2^32
Sub32(a, b) ==
    IF b < 0 /\ a > MaxInt32 + b
    THEN (a - MaxInt32 - 1) - (b + MaxInt32 + 1)
    ELSE IF b > 0 /\ a < MinInt32 + b
         THEN (a + MaxInt32 + 1) - (b - MaxInt32 - 1)
         ELSE a - b

RECURSIVE MulNat32(_, _)
MulNat32(a, n) ==
    IF n = 0 THEN 0
    ELSE LET h == MulNat32(Add32(a, a), n \div 2)
         IN  IF n % 2 = 1 THEN Add32(h, a) ELSE h

\* a * b modulo 2^32
Mul32(a, b) ==
    IF b >= 0 THEN MulNat32(a, b)
    ELSE IF b = MinInt32 THEN Sub32(0, Add32(MulNat32(a, MaxInt32), a))
         ELSE Sub32(0, MulNat32(a, -b))

\* unsigned order of two words
ULt(a, b) == IF (a >= 0) = (b >= 0) THEN a < b ELSE a >= 0

UGe(a, b) == ~ULt(a, b)

\* the quotient of the two words read as unsigned numbers (udiv); a zero
\* divisor gives 0
UDiv32(a, b) ==
    IF b = 0 THEN 0
    ELSE IF b = 1 THEN a
    ELSE IF a >= 0 THEN (IF b > 0 THEN a \div b ELSE 0)
    ELSE IF b < 0 THEN (IF a >= b THEN 1 ELSE 0)
    ELSE LET u == a + MaxInt32 + 1
             r == u % b
             s == MaxInt32 % b
         IN  (u \div b) + (MaxInt32 \div b) + (IF r >= b - s - 1 THEN 1 ELSE 0)

-----------------------------------------------------------------------------
(* types.rs *)

Boolean   == <<"Boolean">>
Number    == <<"Number">>
Void      == <<"Void">>
Undefined == <<"Undefined">>
ArrayOf(element_type) == <<"Array", element_type>>
FunctionType(parameter_types, return_type) ==
    <<"Function", parameter_types, return_type>>

\* the values of an ordered name -> Type mapping, in order
ParamTypes(parameter_types) ==
    [i \in 1..Len(parameter_types) |-> parameter_types[i][2]]

ParamNames(parameter_types) ==
    [i \in 1..Len(parameter_types) |-> parameter_types[i][1]]

\* impl PartialEq for Type
RECURSIVE TypeEq(_, _)
TypeEq(lhs, rhs) ==
    CASE lhs[1] = "Boolean"   /\ rhs[1] = "Boolean"   -> TRUE
      [] lhs[1] = "Number"    /\ rhs[1] = "Number"    -> TRUE
      [] lhs[1] = "Undefined" /\ rhs[1] = "Undefined" -> TRUE
      [] lhs[1] = "Void"      /\ rhs[1] = "Void"      -> TRUE
      [] lhs[1] = "Array"     /\ rhs[1] = "Array"     -> TypeEq(lhs[2], rhs[2])
      [] lhs[1] = "Function"  /\ rhs[1] = "Function"  ->
            /\ TypeEq(lhs[3], rhs[3])
            /\ Len(lhs[2]) = Len(rhs[2])
            /\ \A i \in 1..Len(lhs[2]) : TypeEq(lhs[2][i][2], rhs[2][i][2])
      [] OTHER -> FALSE

-----------------------------------------------------------------------------
(* parser/combinators.rs: a parser maps the remaining input, a sequence of *)
(* characters, to Some(value, rest), to None, or panics.  A combinator is  *)
(* applied to the result of its first parser and to what follows it; a     *)
(* panic ends the parse.                                                   *)

ParseSome(value, rest) == [kind |-> "Some", value |-> value, rest |-> rest]

ParseNone == [kind |-> "None", value |-> <<>>, rest |-> <<>>]

ParsePanic(message) == [kind |-> "Panic", value |-> message, rest |-> <<>>]

\* a parser that yields value without advancing
constant(value, input) == ParseSome(value, input)

\* the parser that callback makes of the value, run on the rest
bind(parsed, callback(_, _)) ==
    IF parsed.kind # "Some" THEN parsed ELSE callback(parsed.value, parsed.rest)

\* both in order, yielding the value of the second
and(parsed, rhs(_)) == bind(parsed, LAMBDA value, rest : rhs(rest))

map(parsed, callback(_)) ==
    bind(parsed, LAMBDA value, rest : ParseSome(callback(value), rest))

\* an or that never tries its right side
or_left_only(lhs, rhs) == lhs

\* the left result, the right one when the left is None
or_(lhs, rhs) == IF lhs.kind = "None" THEN rhs ELSE lhs

\* or with the side that matched: OrValue::Lhs or OrValue::Rhs
or(lhs, rhs) ==
    or_(map(lhs, LAMBDA value : <<"Lhs", value>>),
        map(rhs, LAMBDA value : <<"Rhs", value>>))

\* None becomes Some(None) at the same input; the Option is <<>> for None
\* and <<v>> for Some(v)
maybe(parsed, input) ==
    CASE parsed.kind = "Some" -> ParseSome(<<parsed.value>>, parsed.rest)
      [] parsed.kind = "None" -> ParseSome(<<>>, input)
      [] OTHER                -> parsed

\* a loop that never returns
ParseDiverges == [kind |-> "Diverges", value |-> <<>>, rest |-> <<>>]

\* one turn of the loop of zero_or_more: a None ends it with the results so
\* far at the input of this turn, a Some goes round again.  The parser is a
\* function of the input, so a Some that leaves the input of this turn as it
\* was is returned at every later turn as well: the loop never ends.
zero_or_more(parsed, results, again(_, _)) ==
    CASE parsed.kind = "Some" /\ parsed.rest = results.rest -> ParseDiverges
      [] parsed.kind = "Some" -> again(parsed.value, parsed.rest)
      [] parsed.kind = "None" -> results
      [] OTHER                -> parsed

Drop(input, n) == SubSeq(input, n + 1, Len(input))

\* the length of the longest prefix of input made of characters of class
PrefixIn(input, class) ==
    CHOOSE n \in 0..Len(input) :
        /\ \A i \in 1..n : input[i] \in class
        /\ n = Len(input) \/ input[n + 1] \notin class

\* regex(^literal)
MatchLiteral(literal, input) ==
    IF Len(input) >= Len(literal) /\ SubSeq(input, 1, Len(literal)) = literal
    THEN ParseSome(literal, Drop(input, Len(literal)))
    ELSE ParseNone

\* regex(^[class]*): the empty prefix matches as well
MatchClassStar(class, input) ==
    ParseSome(SubSeq(input, 1, PrefixIn(input, class)),
              Drop(input, PrefixIn(input, class)))

\* regex(^[class]+)
MatchClass(class, input) ==
    IF PrefixIn(input, class) = 0 THEN ParseNone
    ELSE ParseSome(SubSeq(input, 1, PrefixIn(input, class)),
                   Drop(input, PrefixIn(input, class)))

-----------------------------------------------------------------------------
(* parser/expression.rs: tokens and expressions *)

Letters ==
    {
      "a", "b", "c", "d", "e", "f", "g", "h", "i", "j", "k", "l", "m",
      "n", "o", "p", "q", "r", "s", "t", "u", "v", "w", "x", "y", "z",
      "A", "B", "C", "D", "E", "F", "G", "H", "I", "J", "K", "L", "M",
      "N", "O", "P", "Q", "R", "S", "T", "U", "V", "W", "X", "Y", "Z",
      "_" }

Digits == <<"0", "1", "2", "3", "4", "5", "6", "7", "8", "9">>

DigitSet == Range(Digits)

Whitespace == {" ", "\n", "\r", "\t"}

\* every character a source is written in
Alphabet ==
    Letters \cup DigitSet \cup Whitespace
    \cup {"=", ",", ";", "(", ")", "{", "}", "[", "]", "!", "+", "-", "*", "/",
          ":", "@"}

\* a String from its characters
RECURSIVE Join(_)
Join(chars) == IF chars = <<>> THEN "" ELSE chars[1] \o Join(Tail(chars))

\* regex(^//.*): the rest of the line
MatchComment(input) ==
    IF Len(input) >= 2 /\ input[1] = "/" /\ input[2] = "/"
    THEN ParseSome(<<>>, Drop(input, 2 + PrefixIn(Drop(input, 2), Alphabet \ {"\n"})))
    ELSE ParseNone

\* regex(^[a-zA-Z_][a-zA-Z0-9_]*)
MatchId(input) ==
    IF Len(input) = 0 \/ input[1] \notin Letters THEN ParseNone
    ELSE ParseSome(SubSeq(input, 1, 1 + PrefixIn(Drop(input, 1), Letters \cup DigitSet)),
                   Drop(input, 1 + PrefixIn(Drop(input, 1), Letters \cup DigitSet)))

\* whitespace or a comment
whitespace_or_comment(input) == or(MatchClass(Whitespace, input), MatchComment(input))

\* zero or more of whitespace or a comment
RECURSIVE make_ignored_parser(_)
make_ignored_parser(input) ==
    zero_or_more(whitespace_or_comment(input),
                 ParseSome(<<>>, input),
                 LAMBDA value, rest : make_ignored_parser(rest))

\* the pattern, then the ignored sequence, yielding the pattern's text
make_token_parser(matched) ==
    bind(matched, LAMBDA value, rest :
        and(make_ignored_parser(rest), LAMBDA r : constant(value, r)))

exp_make_function_parser(input) == make_token_parser(MatchLiteral(<<"f", "u", "n", "c", "t", "i", "o", "n">>, input))

exp_make_if_parser(input) == make_token_parser(MatchLiteral(<<"i", "f">>, input))

make_true_parser(input) == make_token_parser(MatchLiteral(<<"t", "r", "u", "e">>, input))

make_false_parser(input) == make_token_parser(MatchLiteral(<<"f", "a", "l", "s", "e">>, input))

make_undefined_parser(input) == make_token_parser(MatchLiteral(<<"u", "n", "d", "e", "f", "i", "n", "e", "d">>, input))

make_null_parser(input) == make_token_parser(MatchLiteral(<<"n", "u", "l", "l">>, input))

make_length_parser(input) == make_token_parser(MatchLiteral(<<"l", "e", "n", "g", "t", "h">>, input))

make_else_parser(input) == make_token_parser(MatchLiteral(<<"e", "l", "s", "e">>, input))

exp_make_return_parser(input) == make_token_parser(MatchLiteral(<<"r", "e", "t", "u", "r", "n">>, input))

exp_make_while_parser(input) == make_token_parser(MatchLiteral(<<"w", "h", "i", "l", "e">>, input))

exp_make_var_parser(input) == make_token_parser(MatchLiteral(<<"v", "a", "r">>, input))

make_assign_parser(input) == make_token_parser(MatchLiteral(<<"=">>, input))

make_comma_parser(input) == make_token_parser(MatchLiteral(<<",">>, input))

make_semicolon_parser(input) == make_token_parser(MatchLiteral(<<";">>, input))

make_left_paren_parser(input) == make_token_parser(MatchLiteral(<<"(">>, input))

make_right_paren_parser(input) == make_token_parser(MatchLiteral(<<")">>, input))

make_left_brace_parser(input) == make_token_parser(MatchLiteral(<<"{">>, input))

make_right_brace_parser(input) == make_token_parser(MatchLiteral(<<"}">>, input))

make_left_bracket_parser(input) == make_token_parser(MatchLiteral(<<"[">>, input))

make_right_bracket_parser(input) == make_token_parser(MatchLiteral(<<"]">>, input))

make_not_parser(input) == make_token_parser(MatchLiteral(<<"!">>, input))

make_equal_parser(input) == make_token_parser(MatchLiteral(<<"=", "=">>, input))

make_not_equal_parser(input) == make_token_parser(MatchLiteral(<<"!", "=">>, input))

make_plus_parser(input) == make_token_parser(MatchLiteral(<<"+">>, input))

make_minus_parser(input) == make_token_parser(MatchLiteral(<<"-">>, input))

make_star_parser(input) == make_token_parser(MatchLiteral(<<"*">>, input))

make_slash_parser(input) == make_token_parser(MatchLiteral(<<"/">>, input))

make_id_string_parser(input) == map(make_token_parser(MatchId(input)), Join)

\* text.parse::<i32>() of a string of digits from position i on, -1 for Err
RECURSIVE ParseI32(_, _, _)
ParseI32(text, i, acc) ==
    IF i > Len(text) THEN acc
    ELSE LET d == IndexOf(Digits, text[i]) - 1
         IN  IF acc > (MaxInt32 - d) \div 10 THEN -1
             ELSE ParseI32(text, i + 1, 10 * acc + d)

make_number_parser(input) ==
    bind(make_token_parser(MatchClass(DigitSet, input)), LAMBDA text, rest :
        IF ParseI32(text, 1, 0) < 0
        THEN ParsePanic("internal error: entered unreachable code")
        ELSE ParseSome(Num(ParseI32(text, 1, 0)), rest))

make_bool_parser(input) ==
    map(or(make_true_parser(input), make_false_parser(input)),
        LAMBDA true_or_false : IF true_or_false[1] = "Lhs" THEN Bool(TRUE)
                               ELSE Bool(FALSE))

make_undefined_parser_(input) ==
    and(make_undefined_parser(input), LAMBDA r : constant(Undef, r))

make_null_parser_(input) ==
    and(make_null_parser(input), LAMBDA r : constant(Null, r))

make_identifier_parser(input) == map(make_id_string_parser(input), Id)

\* scalar <- null | undefined | bool | ID | NUMBER
make_scalar_parser(input) ==
    or_(or_(or_(or_(make_null_parser_(input),
                    make_undefined_parser_(input)),
                make_bool_parser(input)),
            make_identifier_parser(input)),
        make_number_parser(input))

RECURSIVE parse(_, _)
RECURSIVE more_args(_, _)
RECURSIVE product_terms(_, _)
RECURSIVE sum_terms(_, _)
RECURSIVE comparison_terms(_, _)

\* array_literal <- LEFT_BRACKET args RIGHT_BRACKET
make_array_literal_parser(input) ==
    bind(and(make_left_bracket_parser(input), LAMBDA next : parse("make_args_parser", next)),
         LAMBDA elements, rest :
             and(make_right_bracket_parser(rest),
                 LAMBDA r : constant(ArrayLiteral(elements), r)))

\* array_lookup <- ID LEFT_BRACKET expression RIGHT_BRACKET
make_array_lookup_parser(input) ==
    bind(make_identifier_parser(input), LAMBDA id, rest :
        bind(and(make_left_bracket_parser(rest), LAMBDA next : parse("make_expression_parser", next)),
             LAMBDA index, rest2 :
                 and(make_right_bracket_parser(rest2),
                     LAMBDA r : constant(ArrayLookup(id, index), r))))

\* array_length <- length LEFT_PAREN expression RIGHT_PAREN
make_array_length_parser(input) ==
    bind(and(and(make_length_parser(input), make_left_paren_parser),
             LAMBDA next : parse("make_expression_parser", next)),
         LAMBDA array, rest :
             and(make_right_paren_parser(rest),
                 LAMBDA r : constant(ArrayLength(array), r)))

\* COMMA expression
comma_expression(input) ==
    and(make_comma_parser(input), LAMBDA next : parse("make_expression_parser", next))

\* zero or more of COMMA expression, after the arguments args
more_args(args, input) ==
    zero_or_more(comma_expression(input),
                 ParseSome(args, input),
                 LAMBDA value, rest : more_args(Append(args, value), rest))

\* an optional first expression, then zero or more of COMMA expression; no
\* first expression yields no arguments whatever follows
make_args_parser(input) ==
    bind(maybe(parse("make_expression_parser", input), input), LAMBDA arg, rest :
        bind(more_args(<<>>, rest), LAMBDA args, r :
            constant(IF Len(arg) = 1 THEN arg \o args ELSE <<>>, r)))

make_call_parser(input) ==
    bind(make_id_string_parser(input), LAMBDA name, rest :
        bind(and(make_left_paren_parser(rest), LAMBDA next : parse("make_args_parser", next)),
             LAMBDA args, rest2 :
                 and(make_right_paren_parser(rest2),
                     LAMBDA r : constant(Call(name, args), r))))

\* LEFT_PAREN expression RIGHT_PAREN
expr_in_parens_parser(input) ==
    and(make_left_paren_parser(input), LAMBDA rest :
        bind(parse("make_expression_parser", rest), LAMBDA e, rest2 :
            and(make_right_paren_parser(rest2), LAMBDA r : constant(e, r))))

\* an atom parser that tries the scalar alternative first
make_atom_parser_scalar_first(input) ==
    or_(or_(or_(or_(or_(make_scalar_parser(input),
                        make_array_length_parser(input)),
                    make_array_literal_parser(input)),
                make_array_lookup_parser(input)),
            make_call_parser(input)),
        expr_in_parens_parser(input))

\* atom <- array_length | array_literal | array_lookup | call | scalar
\*         | LEFT_PAREN expression RIGHT_PAREN
make_atom_parser(input) ==
    or_(or_(or_(or_(or_(make_array_length_parser(input),
                        make_array_literal_parser(input)),
                    make_array_lookup_parser(input)),
                make_call_parser(input)),
            make_scalar_parser(input)),
        expr_in_parens_parser(input))

\* unary <- NOT? atom
make_unary_parser(input) ==
    bind(maybe(make_not_parser(input), input), LAMBDA not, rest :
        map(parse("make_atom_parser", rest),
            LAMBDA term : IF Len(not) = 1 THEN Not(term) ELSE term))

\* (STAR / SLASH) unary
product_term(input) ==
    bind(or(make_star_parser(input), make_slash_parser(input)),
         LAMBDA operator, rest :
             bind(parse("make_unary_parser", rest),
                  LAMBDA term, r : constant(<<operator, term>>, r)))

\* zero or more of (STAR / SLASH) unary, folded onto acc from the left
product_terms(acc, input) ==
    zero_or_more(
        product_term(input),
        ParseSome(acc, input),
        LAMBDA value, rest :
            product_terms(IF value[1][1] = "Lhs" THEN Mul(acc, value[2])
                          ELSE Div(acc, value[2]), rest))

\* product <- unary ((STAR / SLASH) unary)*
make_product_parser(input) == bind(parse("make_unary_parser", input), product_terms)

\* one (PLUS / MINUS) and a whole sum to its right, nested to the right
sum_terms_right(acc, input) ==
    zero_or_more(
        bind(or(make_plus_parser(input), make_minus_parser(input)),
             LAMBDA operator, rest :
                 bind(parse("make_sum_parser", rest),
                      LAMBDA term, r : constant(<<operator, term>>, r))),
        ParseSome(acc, input),
        LAMBDA value, rest :
            ParseSome(IF value[1][1] = "Lhs" THEN Add(acc, value[2])
                      ELSE Sub(acc, value[2]), rest))

\* (PLUS / MINUS) product
sum_term(input) ==
    bind(or(make_plus_parser(input), make_minus_parser(input)),
         LAMBDA operator, rest :
             bind(parse("make_product_parser", rest),
                  LAMBDA term, r : constant(<<operator, term>>, r)))

\* zero or more of (PLUS / MINUS) product, folded onto acc from the left
sum_terms(acc, input) ==
    zero_or_more(
        sum_term(input),
        ParseSome(acc, input),
        LAMBDA value, rest :
            sum_terms(IF value[1][1] = "Lhs" THEN Add(acc, value[2])
                      ELSE Sub(acc, value[2]), rest))

\* a sum of unary terms
make_sum_parser_flat(input) == bind(parse("make_unary_parser", input), sum_terms)

\* sum <- product ((PLUS / MINUS) product)*
make_sum_parser(input) == bind(parse("make_product_parser", input), sum_terms)

\* (EQUAL / NOT_EQUAL) sum
comparison_term(input) ==
    bind(or(make_equal_parser(input), make_not_equal_parser(input)),
         LAMBDA operator, rest :
             bind(parse("make_sum_parser", rest),
                  LAMBDA term, r : constant(<<operator, term>>, r)))

\* zero or more of (EQUAL / NOT_EQUAL) sum, folded onto acc from the left
comparison_terms(acc, input) ==
    zero_or_more(
        comparison_term(input),
        ParseSome(acc, input),
        LAMBDA value, rest :
            comparison_terms(IF value[1][1] = "Lhs" THEN Equal(acc, value[2])
                             ELSE NotEqual(acc, value[2]), rest))

\* comparison <- sum ((EQUAL / NOT_EQUAL) sum)*
make_comparison_parser(input) == bind(parse("make_sum_parser", input), comparison_terms)

make_expression_parser(input) == parse("make_comparison_parser", input)

\* the annotation syntax `: number` of the specification's examples
make_colon_parser(input) == make_token_parser(MatchLiteral(<<":">>, input))

make_type_parser(input) ==
    and(make_token_parser(MatchLiteral(<<"n", "u", "m", "b", "e", "r">>, input)),
        LAMBDA r : constant(Number, r))

-----------------------------------------------------------------------------
(* parser/statement.rs *)

RECURSIVE statements_from(_, _)

\* zero or more statements, after the statements acc
statements_from(acc, input) ==
    zero_or_more(parse("make_statement_parser", input),
                 ParseSome(acc, input),
                 LAMBDA value, rest : statements_from(Append(acc, value), rest))

\* return_statement <- RETURN expression SEMICOLON
stmt_make_return_parser(input) ==
    and(exp_make_return_parser(input), LAMBDA rest :
        bind(parse("make_expression_parser", rest), LAMBDA expr, rest2 :
            and(make_semicolon_parser(rest2),
                LAMBDA r : constant(Return(expr), r))))

\* expression_statement <- expression SEMICOLON
stmt_make_expression_parser(input) ==
    bind(parse("make_expression_parser", input), LAMBDA expr, rest :
        and(make_semicolon_parser(rest), LAMBDA r : constant(expr, r)))

\* if_statement <- IF LEFT_PAREN expression RIGHT_PAREN statement ELSE statement
stmt_make_if_parser(input) ==
    and(exp_make_if_parser(input), LAMBDA rest :
        and(make_left_paren_parser(rest), LAMBDA rest2 :
            bind(parse("make_expression_parser", rest2), LAMBDA conditional, rest3 :
                and(make_right_paren_parser(rest3), LAMBDA rest4 :
                    bind(parse("make_statement_parser", rest4), LAMBDA consequence, rest5 :
                        and(make_else_parser(rest5), LAMBDA rest6 :
                            bind(parse("make_statement_parser", rest6),
                                 LAMBDA alternative, r :
                                     constant(If(conditional, consequence,
                                                 alternative), r))))))))

\* while_statement <- WHILE LEFT_PAREN expression RIGHT_PAREN statement
stmt_make_while_parser(input) ==
    and(and(exp_make_while_parser(input), make_left_paren_parser), LAMBDA rest :
        bind(parse("make_expression_parser", rest), LAMBDA conditional, rest2 :
            and(make_right_paren_parser(rest2), LAMBDA rest3 :
                bind(parse("make_statement_parser", rest3), LAMBDA stmt, r :
                    constant(While(conditional, stmt), r)))))

\* var_statement <- VAR ID ASSIGN expression SEMICOLON
stmt_make_var_parser(input) ==
    and(exp_make_var_parser(input), LAMBDA rest :
        bind(make_id_string_parser(rest), LAMBDA identifier, rest2 :
            and(make_assign_parser(rest2), LAMBDA rest3 :
                bind(parse("make_expression_parser", rest3), LAMBDA expr, rest4 :
                    and(make_semicolon_parser(rest4),
                        LAMBDA r : constant(Var(identifier, expr), r))))))

\* assignment_statement <- ID ASSIGN expression SEMICOLON
make_assignment_parser(input) ==
    bind(make_id_string_parser(input), LAMBDA identifier, rest :
        and(make_assign_parser(rest), LAMBDA rest2 :
            bind(parse("make_expression_parser", rest2), LAMBDA expr, rest3 :
                and(make_semicolon_parser(rest3),
                    LAMBDA r : constant(Assignment(identifier, expr), r)))))

\* block_statement <- LEFT_BRACE statement* RIGHT_BRACE
make_block_parser(input) ==
    and(make_left_brace_parser(input), LAMBDA rest :
        bind(statements_from(<<>>, rest), LAMBDA statements, rest2 :
            and(make_right_brace_parser(rest2),
                LAMBDA r : constant(Block(statements), r))))

make_optional_type_annotation_parser(input) ==
    maybe(and(make_colon_parser(input), make_type_parser), input)

\* a name and its optional type
make_parameter_parser(input) ==
    bind(make_id_string_parser(input), LAMBDA name, rest :
        bind(make_optional_type_annotation_parser(rest), LAMBDA opt_type, r :
            constant(<<name, opt_type>>, r)))

\* COMMA parameter
comma_parameter(input) ==
    and(make_comma_parser(input), LAMBDA next : parse("make_parameter_parser", next))

\* zero or more of COMMA parameter, after the parameters acc
RECURSIVE more_parameters(_, _)
more_parameters(acc, input) ==
    zero_or_more(comma_parameter(input),
                 ParseSome(acc, input),
                 LAMBDA value, rest : more_parameters(Append(acc, value), rest))

\* unwrap_or(Type::Number) on the type of a parameter
DefaultNumber(parameter) ==
    <<parameter[1], IF Len(parameter[2]) = 1 THEN parameter[2][1] ELSE Number>>

make_parameters_parser(input) ==
    bind(maybe(parse("make_parameter_parser", input), input), LAMBDA opt_first_param, rest :
        bind(more_parameters(<<>>, rest), LAMBDA others, r :
            IF Len(opt_first_param) = 1
            THEN constant([i \in 1..(1 + Len(others)) |->
                              DefaultNumber((opt_first_param \o others)[i])], r)
            ELSE constant(<<>>, r)))

\* collect() into the LinkedHashMap: a name inserted again takes the new
\* type and moves to the end
RECURSIVE CollectParams(_)
CollectParams(parameters) ==
    IF parameters = <<>> THEN <<>>
    ELSE IF \E i \in 2..Len(parameters) : parameters[i][1] = parameters[1][1]
         THEN CollectParams(Tail(parameters))
         ELSE <<parameters[1]>> \o CollectParams(Tail(parameters))

\* function_statement <- FUNCTION ID LEFT_PAREN parameters RIGHT_PAREN block
stmt_make_function_parser(input) ==
    and(exp_make_function_parser(input), LAMBDA rest :
        bind(make_id_string_parser(rest), LAMBDA function_id, rest2 :
            and(make_left_paren_parser(rest2), LAMBDA rest3 :
                bind(make_parameters_parser(rest3), LAMBDA parameters, rest4 :
                    and(make_right_paren_parser(rest4), LAMBDA rest5 :
                        bind(make_optional_type_annotation_parser(rest5),
                             LAMBDA ret_type_annot, rest6 :
                                 bind(parse("make_block_parser", rest6), LAMBDA block, r :
                                     constant(
                                         Function(function_id,
                                                  FunctionType(
                                                      CollectParams(parameters),
                                                      IF Len(ret_type_annot) = 1
                                                      THEN ret_type_annot[1]
                                                      ELSE Number),
                                                  block), r))))))))

make_statement_parser(input) ==
    or_(or_(or_(or_(or_(or_(or_(stmt_make_return_parser(input),
                                stmt_make_if_parser(input)),
                            stmt_make_while_parser(input)),
                        stmt_make_var_parser(input)),
                    make_assignment_parser(input)),
                parse("make_block_parser", input)),
            stmt_make_function_parser(input)),
        stmt_make_expression_parser(input))

\* Parser::parse: the parsing function of the named parser applied to the
\* input
parse(parser, input) ==
    CASE parser = "make_expression_parser"   -> make_expression_parser(input)
      [] parser = "make_args_parser"         -> make_args_parser(input)
      [] parser = "make_atom_parser"         -> make_atom_parser(input)
      [] parser = "make_unary_parser"        -> make_unary_parser(input)
      [] parser = "make_product_parser"      -> make_product_parser(input)
      [] parser = "make_sum_parser"          -> make_sum_parser(input)
      [] parser = "make_comparison_parser"   -> make_comparison_parser(input)
      [] parser = "make_statement_parser"    -> make_statement_parser(input)
      [] parser = "make_block_parser"        -> make_block_parser(input)
      [] parser = "make_parameter_parser"    -> make_parameter_parser(input)

-----------------------------------------------------------------------------
(* parser/mod.rs *)

\* the ignored sequence, then zero or more statements, as a Block
make_full_parser(input) ==
    map(and(make_ignored_parser(input), LAMBDA rest : statements_from(<<>>, rest)),
        Block)

-----------------------------------------------------------------------------
(* phases/typecheck.rs: StaticTypeChecker.  A checker is its three fields; *)
(* check returns the type of the node together with the locals and the     *)
(* functions of the checker after the call and the message of the panic    *)
(* that ended it, "" when there was none.  current_return_type is <<>> for *)
(* None and <<t>> for Some(t).                                             *)

Checker(ls, fs, rt) == [locals |-> ls, functions |-> fs, current_return_type |-> rt]

\* an assert_type without the wildcard on the right-hand side
assert_type_left_wildcard(lhs, rhs) ==
    IF TypeEq(lhs, Undefined) THEN ""
    ELSE IF ~TypeEq(lhs, rhs) THEN "Type mismatch" ELSE ""

\* an assert_type that accepts every pair
assert_type_accept(lhs, rhs) == ""

\* the panic message of assert_type(lhs, rhs), "" when it returns
assert_type(lhs, rhs) ==
    IF TypeEq(lhs, Undefined) \/ TypeEq(rhs, Undefined) THEN ""
    ELSE IF ~TypeEq(lhs, rhs) THEN "Type mismatch" ELSE ""

Checked(st, type) ==
    [type |-> type, locals |-> st.locals, functions |-> st.functions, panic |-> ""]

CheckPanicked(st, message) ==
    [type |-> Void, locals |-> st.locals, functions |-> st.functions, panic |-> message]

\* the checker after the call that returned r
After(st, r) == Checker(r.locals, r.functions, st.current_return_type)

\* the call that returned r goes on to assert and to yield type
Asserting(r, message, type) ==
    IF r.panic # "" THEN r ELSE [r EXCEPT !.panic = message, !.type = type]

\* parameters.clone() as the locals of the checker of a function body
ParamsMap(parameter_types) ==
    [name \in Range(ParamNames(parameter_types)) |->
        parameter_types[IndexOf(ParamNames(parameter_types), name)][2]]

\* a checker for a function body that keeps the locals of the enclosing
\* checker next to the parameters
FunctionCheckerInherit(st, node) ==
    Checker([name \in DOMAIN st.locals \cup DOMAIN ParamsMap(node[3][2]) |->
                IF name \in DOMAIN ParamsMap(node[3][2])
                THEN ParamsMap(node[3][2])[name] ELSE st.locals[name]],
            MapInsert(st.functions, node[2], node[3]), <<node[3][3]>>)

\* the checker of a function body: StaticTypeChecker::new(parameters.clone(),
\* self.functions.clone(), Some(rt)) after the insert of the signature
FunctionChecker(st, node) ==
    Checker(ParamsMap(node[3][2]), MapInsert(st.functions, node[2], node[3]),
            <<node[3][3]>>)

\* the reduce over the element types: the first adjacent pair that fails
RECURSIVE ReduceTypes(_, _)
ReduceTypes(types, i) ==
    IF i >= Len(types) THEN ""
    ELSE IF assert_type(types[i], types[i + 1]) # ""
         THEN assert_type(types[i], types[i + 1])
         ELSE ReduceTypes(types, i + 1)

\* a loop over the arguments that also compares the two lengths
ZipTypesSameLength(arg_types, param_types, i) ==
    IF Len(arg_types) # Len(param_types) THEN "Wrong number of arguments"
    ELSE IF \E k \in i..Len(arg_types) : assert_type(arg_types[k], param_types[k]) # ""
         THEN "Type mismatch" ELSE ""

\* the loop over zip(arg_types, param_types): the first pair that fails
RECURSIVE ZipTypes(_, _, _)
ZipTypes(arg_types, param_types, i) ==
    IF i > Len(arg_types) \/ i > Len(param_types) THEN ""
    ELSE IF assert_type(arg_types[i], param_types[i]) # ""
         THEN assert_type(arg_types[i], param_types[i])
         ELSE ZipTypes(arg_types, param_types, i + 1)

RECURSIVE check(_, _)
RECURSIVE check_each(_, _, _)

\* check on the nodes of a sequence from position i on, in order: the types
\* they yield are in the field types
check_each(nodes, i, st) ==
    IF i > Len(nodes)
    THEN [types |-> <<>>, locals |-> st.locals, functions |-> st.functions, panic |-> ""]
    ELSE LET r == check(nodes[i], st)
         IN  IF r.panic # ""
             THEN [types |-> <<>>, locals |-> r.locals, functions |-> r.functions,
                   panic |-> r.panic]
             ELSE LET rest == check_each(nodes, i + 1, After(st, r))
                  IN  [rest EXCEPT !.types = <<r.type>> \o rest.types]

check(node, st) ==
    CASE node[1] = "Number"    -> Checked(st, Number)
      [] node[1] = "Bool"      -> Checked(st, Boolean)
      [] node[1] = "Undefined" -> Checked(st, Undefined)
      [] node[1] = "Null"      -> Checked(st, Void)
      [] node[1] = "Not" ->
            LET r == check(node[2], st)
            IN  Asserting(r, assert_type(Boolean, r.type), Boolean)
      [] node[1] \in {"Addition", "Subtraction", "Multiplication", "Division"} ->
            LET a == Asserting(check(node[2], st),
                               assert_type(Number, check(node[2], st).type), Number)
            IN  IF a.panic # "" THEN a
                ELSE LET b == check(node[3], After(st, a))
                     IN  Asserting(b, assert_type(Number, b.type), Number)
      [] node[1] \in {"Equal", "NotEqual"} ->
            LET a == check(node[2], st)
            IN  IF a.panic # "" THEN a
                ELSE LET b == check(node[3], After(st, a))
                     IN  Asserting(b, assert_type(a.type, b.type), Boolean)
      [] node[1] = "Var" ->
            LET r == check(node[3], st)
            IN  IF r.panic # "" THEN r
                ELSE [r EXCEPT !.locals = MapInsert(r.locals, node[2], r.type),
                               !.type = Void]
      [] node[1] = "Identifier" ->
            IF node[2] \in DOMAIN st.locals
            THEN Checked(st, st.locals[node[2]])
            ELSE CheckPanicked(st, "Undefined variable")
      [] node[1] = "Assignment" ->
            IF node[2] \in DOMAIN st.locals
            THEN LET r == check(node[3], st)
                 IN  Asserting(r, assert_type(st.locals[node[2]], r.type), Void)
            ELSE CheckPanicked(st, "Undefined variable")
      [] node[1] = "ArrayLiteral" ->
            IF Len(node[2]) = 0
            THEN CheckPanicked(st, "Cannot infer type from an empty array")
            ELSE LET rs == check_each(node[2], 1, st)
                 IN  IF rs.panic # "" THEN CheckPanicked(After(st, rs), rs.panic)
                     ELSE IF ReduceTypes(rs.types, 1) # ""
                          THEN CheckPanicked(After(st, rs), ReduceTypes(rs.types, 1))
                          ELSE Checked(After(st, rs), ArrayOf(rs.types[Len(rs.types)]))
      [] node[1] = "ArrayLength" ->
            LET r == check(node[2], st)
            IN  IF r.panic # "" THEN r
                ELSE IF r.type[1] = "Array" THEN [r EXCEPT !.type = Number]
                     ELSE CheckPanicked(After(st, r), "Expected an array")
      [] node[1] = "ArrayLookup" ->
            LET i == Asserting(check(node[3], st),
                               assert_type(Number, check(node[3], st).type), Number)
            IN  IF i.panic # "" THEN i
                ELSE LET a == check(node[2], After(st, i))
                     IN  IF a.panic # "" THEN a
                         ELSE IF a.type[1] = "Array" THEN [a EXCEPT !.type = Number]
                              ELSE CheckPanicked(After(st, a), "Expected an array")
      [] node[1] = "Function" ->
            LET fs   == MapInsert(st.functions, node[2], node[3])
                body == check(node[4], FunctionChecker(st, node))
            IN  [type |-> Void, locals |-> st.locals, functions |-> fs,
                 panic |-> body.panic]
      [] node[1] = "Call" ->
            IF node[2] \notin DOMAIN st.functions
            THEN CheckPanicked(st, "Use of undefined function")
            ELSE LET signature == st.functions[node[2]]
                     rs == check_each(node[3], 1, st)
                 IN  IF rs.panic # "" THEN CheckPanicked(After(st, rs), rs.panic)
                     ELSE IF ZipTypes(rs.types, ParamTypes(signature[2]), 1) # ""
                          THEN CheckPanicked(After(st, rs),
                                             ZipTypes(rs.types, ParamTypes(signature[2]), 1))
                          ELSE Checked(After(st, rs), signature[3])
      [] node[1] = "Return" ->
            LET r == check(node[2], st)
            IN  IF r.panic # "" THEN r
                ELSE IF Len(st.current_return_type) > 0
                     THEN Asserting(r, assert_type(st.current_return_type[1], r.type), Void)
                     ELSE CheckPanicked(After(st, r),
                                        "Return statement used outside of any function.")
      [] node[1] = "If" ->
            LET rs == check_each(<<node[2], node[3], node[4]>>, 1, st)
            IN  IF rs.panic # "" THEN CheckPanicked(After(st, rs), rs.panic)
                ELSE Checked(After(st, rs), Void)
      [] node[1] = "While" ->
            LET rs == check_each(<<node[2], node[3]>>, 1, st)
            IN  IF rs.panic # "" THEN CheckPanicked(After(st, rs), rs.panic)
                ELSE Checked(After(st, rs), Void)
      [] node[1] = "Block" ->
            LET rs == check_each(node[2], 1, st)
            IN  IF rs.panic # "" THEN CheckPanicked(After(st, rs), rs.panic)
                ELSE Checked(After(st, rs), Void)

-----------------------------------------------------------------------------
(* phases/codegen.rs: the label counter and the Environment *)

\* a label minted without advancing the counter
make_label_load_only(l) == [label |-> <<".L", l>>, LABEL |-> l]

\* LABEL.fetch_add(1, SeqCst) and format!(".L{}", value): the label minted
\* from counter value l, and the counter after it
make_label(l) == [label |-> <<".L", l>>, LABEL |-> l + 1]

Environment(ls, next_local_offset) ==
    [locals |-> ls, next_local_offset |-> next_local_offset]

\* Environment::default()
DefaultEnvironment == Environment(EmptyMap, 0)

\* offsets that descend with the position: -4 for the first parameter
ParamOffsetDescending(i) == -4 * (i + 1)

\* the offset of the parameter at 0-based position i
ParamOffset(i) == 4 * i - 16

FirstLocalOffset == -20

\* a function environment that starts without the parameters
make_initial_function_environment_empty(params) ==
    Environment(EmptyMap, FirstLocalOffset)

\* collect() into the BTreeMap keeps the last position of a repeated name
make_initial_function_environment(params) ==
    Environment(
        [name \in Range(params) |->
            LET i == CHOOSE j \in 1..Len(params) :
                        /\ params[j] = name
                        /\ \A k \in (j + 1)..Len(params) : params[k] # name
            IN  ParamOffset(i - 1)],
        FirstLocalOffset)

emit_prologue ==
    << <<"push", <<"fp", "lr">>>>,               \* push {fp, lr}
       <<"movr", "fp", "sp">>,                   \* mov fp, sp
       <<"push", <<"r0", "r1", "r2", "r3">>>> >> \* push {r0, r1, r2, r3}

emit_epilogue ==
    << <<"movr", "sp", "fp">>,                   \* mov sp, fp
       <<"movi", "al", "r0", 0>>,                \* mov r0, #0
       <<"pop", <<"fp", "pc">>>> >>              \* pop {fp, pc}

-----------------------------------------------------------------------------
(* phases/codegen.rs: emit_ast.  The result of emitting a node holds the   *)
(* text appended to the buffer, the environment and the label counter      *)
(* after it, the message of the first panic ("" when there is none), and   *)
(* the environments of the Function nodes emitted, in order.               *)

Emitted(e, l) == [code |-> <<>>, env |-> e, LABEL |-> l, panic |-> "", frames |-> <<>>]

\* buffer.push_str of the given lines after what a emitted
Push(a, lines) == [a EXCEPT !.code = @ \o lines]

\* b emitted after a, from a's environment and counter
Then(a, b) ==
    [code   |-> a.code \o b.code,
     env    |-> b.env,
     LABEL  |-> b.LABEL,
     panic  |-> IF a.panic # "" THEN a.panic ELSE b.panic,
     frames |-> a.frames \o b.frames]

Panicked(a, message) == [a EXCEPT !.panic = IF @ # "" THEN @ ELSE message]

PushR0 == << <<"push", <<"r0", "ip">>>> >>       \* push {r0, ip}
PopR1  == << <<"pop", <<"r1", "ip">>>> >>        \* pop {r1, ip}

AdditionOp       == << <<"alu", "add", "r0", "r0", "r1">> >>   \* add r0, r0, r1
SubtractionOp    == << <<"alu", "sub", "r0", "r1", "r0">> >>   \* sub r0, r1, r0
MultiplicationOp == << <<"alu", "mul", "r0", "r0", "r1">> >>   \* mul r0, r0, r1
DivisionOp       == << <<"alu", "udiv", "r0", "r0", "r1">> >>  \* udiv r0, r0, r1

EqualOp ==
    << <<"cmpr", "r0", "r1">>,                   \* cmp r0, r1
       <<"movi", "eq", "r0", 1>>,                \* moveq r0, #1
       <<"movi", "ne", "r0", 0>> >>              \* movne r0, #0

NotEqualOp ==
    << <<"cmpr", "r0", "r1">>,                   \* cmp r0, r1
       <<"movi", "eq", "r0", 0>>,                \* moveq r0, #0
       <<"movi", "ne", "r0", 1>> >>              \* movne r0, #1

NotOp ==
    << <<"cmpi", "r0", 0>>,                      \* cmp r0, #0
       <<"movi", "eq", "r0", 1>>,                \* moveq r0, #1
       <<"movi", "ne", "r0", 0>> >>              \* movne r0, #0

BinaryOp(kind) ==
    CASE kind = "Addition"       -> AdditionOp
      [] kind = "Subtraction"    -> SubtractionOp
      [] kind = "Multiplication" -> MultiplicationOp
      [] kind = "Division"       -> DivisionOp
      [] kind = "Equal"          -> EqualOp
      [] kind = "NotEqual"       -> NotEqualOp

BinaryKinds ==
    {"Addition", "Subtraction", "Multiplication", "Division", "Equal", "NotEqual"}

ArrayLiteralHead(length) ==
    << <<"ldrc", "r0", 4 * (length + 1)>>,       \* ldr r0, =size
       <<"bl", "malloc">>,                       \* bl malloc
       <<"push", <<"r4", "ip">>>>,               \* push {r4, ip}
       <<"movr", "r4", "r0">>,                   \* mov r4, r0
       <<"ldrc", "r0", length>>,                 \* ldr r0, =length
       <<"stri", "r0", "r4", 0>> >>              \* str r0, [r4]

\* the end of an array literal that leaves r4 at the block just filled
ArrayLiteralTailKeepR4 ==
    << <<"movr", "r0", "r4">>,                   \* mov r0, r4
       <<"pop", <<"r1", "ip">>>> >>              \* pop {r1, ip}

ArrayLiteralTail ==
    << <<"movr", "r0", "r4">>,                   \* mov r0, r4
       <<"pop", <<"r4", "ip">>>> >>              \* pop {r4, ip}

\* a bounds check that lets the index equal to the length through: movhi
\* in place of movhs
ArrayLookupTailHi ==
    << <<"pop", <<"r1", "ip">>>>,
       <<"ldri", "r2", "r1", 0>>,
       <<"cmpr", "r0", "r2">>,
       <<"movi", "hi", "r0", 0>>,
       <<"addi", "lo", "r1", "r1", 4>>,
       <<"lsli", "lo", "r0", "r0", 2>>,
       <<"ldrr", "lo", "r0", "r1", "r0">> >>

ArrayLookupTail ==
    << <<"pop", <<"r1", "ip">>>>,                \* pop {r1, ip}
       <<"ldri", "r2", "r1", 0>>,                \* ldr r2, [r1]
       <<"cmpr", "r0", "r2">>,                   \* cmp r0, r2
       <<"movi", "hs", "r0", 0>>,                \* movhs r0, #0
       <<"addi", "lo", "r1", "r1", 4>>,          \* addlo r1, r1, #4
       <<"lsli", "lo", "r0", "r0", 2>>,          \* lsllo r0, r0, #2
       <<"ldrr", "lo", "r0", "r1", "r0">> >>     \* ldrlo r0, [r1, r0]

\* a Return that ends as the end of the body does
ReturnTailZeroing == emit_epilogue

ReturnTail ==
    << <<"movr", "sp", "fp">>,                   \* mov sp, fp
       <<"pop", <<"fp", "pc">>>> >>              \* pop {fp, pc}

\* a consequence that runs on into the alternative
ElseEntryFallThrough(end_if_label, false_label) ==
    << <<"label", false_label>> >>               \* false_label:

\* what separates the consequence of an If from its alternative
ElseEntry(end_if_label, false_label) ==
    << <<"b", "al", end_if_label>>,              \* b end_if_label
       <<"label", false_label>> >>               \* false_label:

\* a body that runs on past the loop
LoopOnce(start_label, end_label) ==
    << <<"label", end_label>> >>                 \* end_label:

\* what ends the body of a While
LoopBack(start_label, end_label) ==
    << <<"b", "al", start_label>>,               \* b start_label
       <<"label", end_label>> >>                 \* end_label:

\* a local recorded at next_local_offset itself
DeclareLocalAtNext(e, name) ==
    Environment(MapInsert(e.locals, name, e.next_local_offset),
                e.next_local_offset - 8)

\* the Var arm's update of the environment
DeclareLocal(e, name) ==
    Environment(MapInsert(e.locals, name, e.next_local_offset - 4),
                e.next_local_offset - 8)

MaxArguments == 4

\* a limit of five arguments
SupportedUpToFive(n) == n <= MaxArguments + 1

\* the number of arguments of a call, or of parameters of a function, that
\* code is generated for: `x if x < 5`, `parameter_types.len() > 4`
Supported(n) == n <= MaxArguments

RECURSIVE emit_ast(_, _, _)
RECURSIVE emit_statements(_, _, _)
RECURSIVE emit_elements(_, _, _, _)
RECURSIVE emit_arguments(_, _, _, _)

\* for statement in statements { self.emit_ast(statement, buffer, env) }
emit_statements(statements, e, l) ==
    IF statements = <<>> THEN Emitted(e, l)
    ELSE LET a == emit_ast(Head(statements), e, l)
         IN  Then(a, emit_statements(Tail(statements), a.env, a.LABEL))

\* the elements of an array literal from 0-based position i on
emit_elements(elements, i, e, l) ==
    IF i >= Len(elements) THEN Emitted(e, l)
    ELSE LET a == Push(emit_ast(elements[i + 1], e, l),
                       << <<"stri", "r0", "r4", 4 * (i + 1)>> >>)  \* str r0, [r4, #4*(i+1)]
         IN  Then(a, emit_elements(elements, i + 1, a.env, a.LABEL))

\* arguments stored from the top of the scratch area down
emit_arguments_descending(args, i, e, l) ==
    IF i >= Len(args) THEN Emitted(e, l)
    ELSE LET a == Push(emit_ast(args[i + 1], e, l),
                       << <<"stri", "r0", "sp", 12 - 4 * i>> >>)
         IN  Then(a, emit_arguments(args, i + 1, a.env, a.LABEL))

\* the arguments of a call with 2 to 4 arguments from 0-based position i on
emit_arguments(args, i, e, l) ==
    IF i >= Len(args) THEN Emitted(e, l)
    ELSE LET a == Push(emit_ast(args[i + 1], e, l),
                       << <<"stri", "r0", "sp", 4 * i>> >>)        \* str r0, [sp, #4*i]
         IN  Then(a, emit_arguments(args, i + 1, a.env, a.LABEL))

emit_ast(node, e, l) ==
    CASE node[1] = "Block" -> emit_statements(node[2], e, l)
      [] node[1] \in {"Undefined", "Null"} ->
            Push(Emitted(e, l), << <<"movi", "al", "r0", 0>> >>)
      [] node[1] = "Number" ->
            Push(Emitted(e, l), << <<"ldrc", "r0", node[2]>> >>)
      [] node[1] = "Bool" ->
            Push(Emitted(e, l), << <<"movi", "al", "r0", IF node[2] THEN 1 ELSE 0>> >>)
      [] node[1] = "ArrayLiteral" ->
            Push(Then(Push(Emitted(e, l), ArrayLiteralHead(Len(node[2]))),
                      emit_elements(node[2], 0, e, l)),
                 ArrayLiteralTail)
      [] node[1] = "ArrayLookup" ->
            LET a == Push(emit_ast(node[2], e, l), PushR0)
                b == emit_ast(node[3], a.env, a.LABEL)
            IN  Push(Then(a, b), ArrayLookupTail)
      [] node[1] = "ArrayLength" ->
            Push(emit_ast(node[2], e, l), << <<"ldri", "r0", "r0", 0>> >>)
      [] node[1] = "Not" ->
            Push(emit_ast(node[2], e, l), NotOp)
      [] node[1] \in BinaryKinds ->
            LET a == Push(emit_ast(node[2], e, l), PushR0)
                b == emit_ast(node[3], a.env, a.LABEL)
            IN  Push(Push(Then(a, b), PopR1), BinaryOp(node[1]))
      [] node[1] = "Call" ->
            LET name == node[2]
                args == node[3]
                bl   == << <<"bl", name>> >>
            IN  CASE Len(args) = 0 -> Push(Emitted(e, l), bl)
                  [] Len(args) = 1 -> Push(emit_ast(args[1], e, l), bl)
                  [] Len(args) > 1 /\ Supported(Len(args)) ->
                        Push(Then(Push(Emitted(e, l), << <<"subi", "sp", "sp", 16>> >>),
                                  emit_arguments(args, 0, e, l)),
                             << <<"pop", <<"r0", "r1", "r2", "r3">>>> >> \o bl)
                  [] OTHER ->
                        Panicked(Emitted(e, l), "More than four arguments are not supported")
      [] node[1] = "Var" ->
            LET a == Push(emit_ast(node[3], e, l), PushR0)
            IN  [a EXCEPT !.env = DeclareLocal(a.env, node[2])]
      [] node[1] = "Assignment" ->
            IF node[2] \in DOMAIN e.locals
            THEN Push(emit_ast(node[3], e, l),
                      << <<"stri", "r0", "fp", e.locals[node[2]]>> >>)
            ELSE Panicked(Emitted(e, l), "Assignment to an undefined variable")
      [] node[1] = "Identifier" ->
            IF node[2] \in DOMAIN e.locals
            THEN Push(Emitted(e, l), << <<"ldri", "r0", "fp", e.locals[node[2]]>> >>)
            ELSE Panicked(Emitted(e, l), "Tried to use an undefined name")
      [] node[1] = "Function" ->
            LET name == node[2]
                parameter_types == node[3][2]
            IN  IF ~Supported(Len(parameter_types))
                THEN Panicked(Emitted(e, l), "More than four arguments are not supported")
                ELSE LET head == << <<"global", name>>,                \* .global name
                                    <<"label", <<"fn", name>>>> >>     \* name:
                                    \o emit_prologue
                         body == emit_ast(node[4],
                                    make_initial_function_environment(
                                        ParamNames(parameter_types)), l)
                     IN  [code   |-> head \o body.code \o emit_epilogue,
                          env    |-> e,
                          LABEL  |-> body.LABEL,
                          panic  |-> body.panic,
                          frames |-> <<[function |-> node,
                                        initial  |-> make_initial_function_environment(
                                                        ParamNames(parameter_types)),
                                        env      |-> body.env]>> \o body.frames]
      [] node[1] = "Return" ->
            Push(emit_ast(node[2], e, l), ReturnTail)
      [] node[1] = "If" ->
            LET false_label  == make_label(l)
                end_if_label == make_label(false_label.LABEL)
                c == Push(emit_ast(node[2], e, end_if_label.LABEL),
                          << <<"cmpi", "r0", 0>>,                      \* cmp r0, #0
                             <<"b", "eq", false_label.label>> >>)      \* beq false_label
                t == Push(emit_ast(node[3], c.env, c.LABEL),
                          ElseEntry(end_if_label.label, false_label.label))
                f == Push(emit_ast(node[4], t.env, t.LABEL),
                          << <<"label", end_if_label.label>> >>)       \* end_if_label:
            IN  Then(Then(c, t), f)
      [] node[1] = "While" ->
            LET start_label == make_label(l)
                end_label   == make_label(start_label.LABEL)
                c == Push(emit_ast(node[2], e, end_label.LABEL),
                          << <<"cmpi", "r0", 0>>,                      \* cmp r0, #0
                             <<"b", "eq", end_label.label>> >>)        \* beq end_label
                b == Push(emit_ast(node[3], c.env, c.LABEL),
                          LoopBack(start_label.label, end_label.label))
            IN  Then(Push(Emitted(e, l), << <<"label", start_label.label>> >>),
                     Then(c, b))

-----------------------------------------------------------------------------
(* The variables a specification does not use keep these values. *)

DrvIdle ==
    /\ source = <<>> /\ phase = "idle" /\ ast = Null /\ output = <<>>
    /\ applied = "" /\ outcome = <<>>

TcIdle ==
    /\ locals = EmptyMap
    /\ functions = EmptyMap
    /\ current_return_type = <<>>
    /\ checked = <<>>

GenIdle ==
    /\ buffer = <<>>
    /\ env = DefaultEnvironment
    /\ frames = <<>>
    /\ panic = ""
    /\ emitted = <<>>

RunIdle ==
    /\ program = Null
    /\ code = <<>>
    /\ pc = 0
    /\ regs = EmptyMap
    /\ mem = EmptyMap
    /\ flags = <<0, 0>>
    /\ heap = 0
    /\ junk = 0
    /\ calls = <<>>
    /\ returned = <<>>
    /\ loads = {}
    /\ fault = ""

ThrIdle == tpc = EmptyMap /\ tvalue = EmptyMap /\ tlabels = <<>>

-----------------------------------------------------------------------------
(* Spec: the driver of main.rs.  main reads the source text and prints     *)
(* compile(source): parse, typecheck, generate_code, in that order.  A     *)
(* panic in a phase ends the process with nothing printed.                 *)

\* the source texts compiled
Sources ==
    {
      \* var x = 1; @
      <<"v", "a", "r", " ", "x", " ", "=", " ", "1", ";", " ", "@">>,
      \* var x = 1;
      <<"v", "a", "r", " ", "x", " ", "=", " ", "1", ";">>,
      \* (empty)
      <<>>,
      \* 1 +
      <<"1", " ", "+">>,
      \* function main() { return 1 - 2 - 3; }
      <<"f", "u", "n", "c", "t", "i", "o", "n", " ", "m", "a", "i", "n",
        "(", ")", " ", "{", " ", "r", "e", "t", "u", "r", "n", " ", "1",
        " ", "-", " ", "2", " ", "-", " ", "3", ";", " ", "}">>,
      \* function f(a: number, b) { return a * b + 1; } f(1, 2);
      <<"f", "u", "n", "c", "t", "i", "o", "n", " ", "f", "(", "a", ":",
        " ", "n", "u", "m", "b", "e", "r", ",", " ", "b", ")", " ", "{",
        " ", "r", "e", "t", "u", "r", "n", " ", "a", " ", "*", " ", "b",
        " ", "+", " ", "1", ";", " ", "}", " ", "f", "(", "1", ",", " ",
        "2", ")", ";">>,
      \* x = 1;
      <<"x", " ", "=", " ", "1", ";">>,
      \* var a = [1, 2]; a[0]; length(a);
      <<"v", "a", "r", " ", "a", " ", "=", " ", "[", "1", ",", " ", "2",
        "]", ";", " ", "a", "[", "0", "]", ";", " ", "l", "e", "n", "g",
        "t", "h", "(", "a", ")", ";">>,
      \* if (true) { } else { }
      <<"i", "f", " ", "(", "t", "r", "u", "e", ")", " ", "{", " ", "}",
        " ", "e", "l", "s", "e", " ", "{", " ", "}">>,
      \* if (true) { }
      <<"i", "f", " ", "(", "t", "r", "u", "e", ")", " ", "{", " ", "}">>,
      \* while (false) 1;
      <<"w", "h", "i", "l", "e", " ", "(", "f", "a", "l", "s", "e", ")",
        " ", "1", ";">>,
      \* return 1;
      <<"r", "e", "t", "u", "r", "n", " ", "1", ";">>,
      \* 99999999999;
      <<"9", "9", "9", "9", "9", "9", "9", "9", "9", "9", "9", ";">>,
      \* 2147483647;
      <<"2", "1", "4", "7", "4", "8", "3", "6", "4", "7", ";">>,
      \* returnx;
      <<"r", "e", "t", "u", "r", "n", "x", ";">>,
      \* var varx = 1;
      <<"v", "a", "r", " ", "v", "a", "r", "x", " ", "=", " ", "1", ";">>,
      \* // c\nvar y = 2; }
      <<"/", "/", " ", "c", "\n", "v", "a", "r", " ", "y", " ", "=", " ",
        "2", ";", " ", "}">>,
      \* putchar(65);
      <<"p", "u", "t", "c", "h", "a", "r", "(", "6", "5", ")", ";">>,
      \* var x = undefined; x = 1; x = true;
      <<"v", "a", "r", " ", "x", " ", "=", " ", "u", "n", "d", "e", "f",
        "i", "n", "e", "d", ";", " ", "x", " ", "=", " ", "1", ";", " ",
        "x", " ", "=", " ", "t", "r", "u", "e", ";">>,
      \* var x = 1; x = true;
      <<"v", "a", "r", " ", "x", " ", "=", " ", "1", ";", " ", "x", " ",
        "=", " ", "t", "r", "u", "e", ";">>,
      \* 1 == 2 != true;
      <<"1", " ", "=", "=", " ", "2", " ", "!", "=", " ", "t", "r", "u",
        "e", ";">>,
      \* !(1 == 2);
      <<"!", "(", "1", " ", "=", "=", " ", "2", ")", ";">>,
      \* 1 + 2 * 3;
      <<"1", " ", "+", " ", "2", " ", "*", " ", "3", ";">>,
      \* (1 + 2) * 3;
      <<"(", "1", " ", "+", " ", "2", ")", " ", "*", " ", "3", ";">>,
      \* 8 / 4 / 2;
      <<"8", " ", "/", " ", "4", " ", "/", " ", "2", ";">>,
      \* f(,1);
      <<"f", "(", ",", "1", ")", ";">>,
      \* function f() { } f(1);
      <<"f", "u", "n", "c", "t", "i", "o", "n", " ", "f", "(", ")", " ",
        "{", " ", "}", " ", "f", "(", "1", ")", ";">>,
      \* function f(a, b, c, d, e) { }
      <<"f", "u", "n", "c", "t", "i", "o", "n", " ", "f", "(", "a", ",",
        " ", "b", ",", " ", "c", ",", " ", "d", ",", " ", "e", ")", " ",
        "{", " ", "}">>,
      \* function f(a) { } f(1, 2, 3, 4, 5);
      <<"f", "u", "n", "c", "t", "i", "o", "n", " ", "f", "(", "a", ")",
        " ", "{", " ", "}", " ", "f", "(", "1", ",", " ", "2", ",", " ",
        "3", ",", " ", "4", ",", " ", "5", ")", ";">>,
      \* var n = null; var t = nulls;
      <<"v", "a", "r", " ", "n", " ", "=", " ", "n", "u", "l", "l", ";",
        " ", "v", "a", "r", " ", "t", " ", "=", " ", "n", "u", "l", "l",
        "s", ";">>,
      \* var x = 1 var y = 2;
      <<"v", "a", "r", " ", "x", " ", "=", " ", "1", " ", "v", "a", "r",
        " ", "y", " ", "=", " ", "2", ";">>,
      \* function main(a) { function g(b) { var c = b; } return a; }
      <<"f", "u", "n", "c", "t", "i", "o", "n", " ", "m", "a", "i", "n",
        "(", "a", ")", " ", "{", " ", "f", "u", "n", "c", "t", "i", "o",
        "n", " ", "g", "(", "b", ")", " ", "{", " ", "v", "a", "r", " ",
        "c", " ", "=", " ", "b", ";", " ", "}", " ", "r", "e", "t", "u",
        "r", "n", " ", "a", ";", " ", "}">>,
      \* var a = []; 
      <<"v", "a", "r", " ", "a", " ", "=", " ", "[", "]", ";", " ">>,
      \* \t var x = 1 ; // end
      <<"\t", " ", "v", "a", "r", " ", "x", " ", "=", " ", "1", " ", ";",
        " ", "/", "/", " ", "e", "n", "d">>,
      \* putchar(1); putchar(1, 2, 3, 4, 5);
      <<"p", "u", "t", "c", "h", "a", "r", "(", "1", ")", ";", " ", "p",
        "u", "t", "c", "h", "a", "r", "(", "1", ",", " ", "2", ",", " ",
        "3", ",", " ", "4", ",", " ", "5", ")", ";">>,
      \* function f(a, b, c, d) { } f(1, 2, 3, 4);
      <<"f", "u", "n", "c", "t", "i", "o", "n", " ", "f", "(", "a", ",",
        " ", "b", ",", " ", "c", ",", " ", "d", ")", " ", "{", " ", "}",
        " ", "f", "(", "1", ",", " ", "2", ",", " ", "3", ",", " ", "4",
        ")", ";">>,
      \* function g() { putchar(1, 2, 3, 4, 5); }
      <<"f", "u", "n", "c", "t", "i", "o", "n", " ", "g", "(", ")", " ",
        "{", " ", "p", "u", "t", "c", "h", "a", "r", "(", "1", ",", " ",
        "2", ",", " ", "3", ",", " ", "4", ",", " ", "5", ")", ";", " ",
        "}">>,
      \* function f(a, a, b, c, d) { }
      <<"f", "u", "n", "c", "t", "i", "o", "n", " ", "f", "(", "a", ",",
        " ", "a", ",", " ", "b", ",", " ", "c", ",", " ", "d", ")", " ",
        "{", " ", "}">>,
      \* var a = putchar(1, 2, 3, 4, 5);
      <<"v", "a", "r", " ", "a", " ", "=", " ", "p", "u", "t", "c", "h",
        "a", "r", "(", "1", ",", " ", "2", ",", " ", "3", ",", " ", "4",
        ",", " ", "5", ")", ";">> }
PutcharType == FunctionType(<< <<"x1", Number>> >>, Void)

\* functions.insert("putchar", ...) of typecheck in main.rs
InitialFunctions == [name \in {"putchar"} |-> PutcharType]

Init ==
    /\ RunIdle /\ ThrIdle /\ TcIdle /\ GenIdle
    /\ LABEL = 0
    /\ source \in Sources
    /\ phase = "read"
    /\ ast = Null
    /\ output = <<>>
    /\ applied = ""
    /\ outcome = <<>>

\* parse: parser.parse(&source).unwrap().1
Parse ==
    /\ phase = "read"
    /\ applied' = "make_full_parser"
    /\ outcome' = make_full_parser(source)
    /\ IF outcome'.kind = "Some"
       THEN /\ ast' = outcome'.value
            /\ phase' = "parsed"
            /\ panic' = ""
       ELSE /\ ast' = ast
            /\ phase' = "panicked"
            /\ panic' = IF outcome'.kind = "Panic" THEN outcome'.value
                        ELSE "called Option::unwrap() on a None value"
    /\ UNCHANGED <<source, output, tcVars, buffer, env, frames, emitted, LABEL,
                   runVars, thrVars>>

\* typecheck: a checker that knows putchar checks the whole tree
Typecheck ==
    /\ phase = "parsed"
    /\ LET st == Checker(EmptyMap, InitialFunctions, <<>>)
           r  == check(ast, st)
       IN  /\ locals' = r.locals
           /\ functions' = r.functions
           /\ checked' = << [node |-> ast, before |-> st, type |-> r.type,
                             panic |-> r.panic, n |-> 1] >>
           /\ panic' = r.panic
           /\ phase' = IF r.panic = "" THEN "checked" ELSE "panicked"
    /\ UNCHANGED <<source, ast, output, applied, outcome, current_return_type, buffer,
                   env, frames, emitted, LABEL, runVars, thrVars>>

\* generate_code: the tree emitted into an empty buffer with
\* Environment::default()
GenerateCode ==
    /\ phase = "checked"
    /\ LET r == emit_ast(ast, DefaultEnvironment, LABEL)
       IN  /\ buffer' = r.code
           /\ env' = r.env
           /\ LABEL' = r.LABEL
           /\ frames' = r.frames
           /\ emitted' = IF r.panic = "" THEN ast[2] ELSE emitted
           /\ panic' = r.panic
           /\ phase' = IF r.panic = "" THEN "generated" ELSE "panicked"
    /\ UNCHANGED <<source, ast, output, applied, outcome, tcVars, runVars, thrVars>>

\* a print of the buffer that a panic of the code generator left behind
PrintPartial ==
    /\ phase \in {"generated", "panicked"}
    /\ buffer # <<>>
    /\ output' = buffer
    /\ phase' = "printed"
    /\ UNCHANGED <<source, ast, applied, outcome, tcVars, genVars, LABEL, runVars, thrVars>>

\* print!("{}", compile(&source))
PrintOutput ==
    /\ phase = "generated"
    /\ output' = buffer
    /\ phase' = "printed"
    /\ UNCHANGED <<source, ast, applied, outcome, tcVars, genVars, LABEL, runVars, thrVars>>

Next == Parse \/ Typecheck \/ GenerateCode \/ PrintOutput

Spec == Init /\ [][Next]_vars

\* the text the full parser leaves unconsumed
Residual == make_full_parser(source).rest

(* C1: when the full-program parser leaves unconsumed text the result is a *)
(* parse failure: the driver rejects the input, so the compilation does    *)
(* not get past parsing and nothing is printed.                            *)
C1_ResidualRejected ==
    (make_full_parser(source).kind = "Some" /\ Residual # <<>>)
    => (phase \in {"read", "panicked"} /\ output = <<>>)

-----------------------------------------------------------------------------
(* SpecGen: code generation.  generate_code emits the top-level Block into *)
(* an empty buffer with Environment::default(); each step is one turn of   *)
(* the Block arm's loop, emit_ast on the next top-level statement, which   *)
(* is drawn from GenStatements.  A panic ends the process.                 *)

\* a function whose parameters and result are numbers
Fn(name, params, body) ==
    Function(name,
             FunctionType([i \in 1..Len(params) |-> <<params[i], Number>>], Number),
             body)

MaxStatements == 2

GenStatements ==
    { Fn("f0", <<>>,
         Block(<< Var("a", Num(1)), Var("b", Id("a")), Return(Id("b")) >>)),
      Fn("f1", <<"p">>,
         Block(<< Var("a", Id("p")),
                  If(Equal(Id("a"), Num(0)),
                     Block(<< Var("b", Num(1)) >>),
                     Block(<< Assignment("a", Num(2)) >>)),
                  Var("c", Num(3)),
                  Return(Id("c")) >>)),
      Fn("f2", <<"p", "q">>,
         Block(<< While(NotEqual(Id("p"), Num(0)),
                        Block(<< Var("t", Id("q")),
                                 Assignment("p", Sub(Id("p"), Num(1))) >>)),
                  Return(Call("f2", <<Id("p"), Id("q")>>)) >>)),
      Fn("f3", <<"p", "q", "r">>,
         Block(<< Var("a", ArrayLiteral(<<Id("p"), Id("q"), Id("r")>>)),
                  Return(ArrayLookup(Id("a"), Num(1))) >>)),
      Fn("f4", <<"p", "q", "r", "s">>,
         Block(<< If(Id("p"),
                     If(Id("q"), Block(<<>>), Block(<<>>)),
                     While(Id("r"), Block(<< Assignment("r", Num(0)) >>))),
                  Var("a", Id("s")),
                  Var("a", Div(Id("a"), Num(2))),
                  Var("b", Not(Id("a"))),
                  Return(Call("f4", <<Id("a"), Id("b"), Num(3), Num(4)>>)) >>)),
      Fn("f5", <<"p", "q", "r", "s", "t">>, Block(<< Return(Id("t")) >>)),
      Fn("g", <<"p">>,
         Block(<< Var("a", Num(1)),
                  Fn("h", <<"q", "r">>, Block(<< Var("b", Id("r")) >>)),
                  Var("c", Id("a")) >>)),
      Var("x", Num(1)),
      Assignment("x", Mul(Id("x"), Num(2))),
      If(Bool(TRUE), Block(<<>>), Block(<< Call("putchar", <<Num(65)>>) >>)),
      While(Bool(FALSE),
            Block(<< If(Null, While(Undef, Block(<<>>)), Block(<<>>)) >>)),
      Call("f", <<Num(1), Num(2), Num(3)>>),
      Call("f", <<Num(1), Num(2), Num(3), Num(4), Num(5)>>),
      ArrayLength(ArrayLiteral(<< Call("f0", <<>>) >>)) }

InitGen ==
    /\ DrvIdle /\ TcIdle /\ RunIdle /\ ThrIdle
    /\ buffer = <<>>
    /\ env = DefaultEnvironment
    /\ LABEL = 0
    /\ frames = <<>>
    /\ panic = ""
    /\ emitted = <<>>

EmitStatement(node) ==
    /\ panic = ""
    /\ Len(emitted) < MaxStatements
    /\ LET r == emit_ast(node, env, LABEL)
       IN  IF r.panic # ""
           THEN /\ panic' = r.panic
                /\ UNCHANGED <<buffer, env, LABEL, frames, emitted>>
           ELSE /\ buffer' = buffer \o r.code
                /\ env' = r.env
                /\ LABEL' = r.LABEL
                /\ frames' = frames \o r.frames
                /\ emitted' = Append(emitted, node)
                /\ panic' = ""
    /\ UNCHANGED <<drvVars, tcVars, runVars, thrVars>>

NextGen == \E node \in GenStatements : EmitStatement(node)

SpecGen == InitGen /\ [][NextGen]_vars

-----------------------------------------------------------------------------
(* Properties of the generated code and of the environments it was         *)
(* generated under.                                                        *)

\* the parameter names of the function of frame f
FrameParams(f) == ParamNames(f.function[3][2])

(* C3: in the initial environment of a function with n <= 4 parameters the *)
(* i-th parameter (1-based) is at offset 4 * (i - 1) - 16 from fp: -16,    *)
(* -12, -8, -4 for parameters 1 to 4.                                      *)
C3_ParamOffsetsAscend ==
    \A k \in 1..Len(frames) :
        LET params == FrameParams(frames[k])
        IN  /\ Len(params) <= 4
            /\ DOMAIN frames[k].initial.locals = Range(params)
            /\ \A i \in 1..Len(params) :
                  frames[k].initial.locals[params[i]] = 4 * (i - 1) - 16

\* C3 as stated: the i-th parameter (1-based) is at offset -4 * i
C3_ParamOffsetsAsStated ==
    \A k \in 1..Len(frames) :
        LET params == FrameParams(frames[k])
        IN  \A i \in 1..Len(params) :
               frames[k].initial.locals[params[i]] = -4 * i

\* a function with four parameters has been generated
C3_FourParamsGenerated ==
    \E k \in 1..Len(frames) : Len(FrameParams(frames[k])) = 4

\* the names of the Var statements of a function body in the order they are
\* emitted; the body of a function defined inside has its own environment
RECURSIVE VarNames(_)
RECURSIVE VarNamesOf(_, _)
VarNames(node) ==
    CASE node[1] = "Var"   -> <<node[2]>>
      [] node[1] = "Block" -> VarNamesOf(node[2], 1)
      [] node[1] = "If"    -> VarNames(node[3]) \o VarNames(node[4])
      [] node[1] = "While" -> VarNames(node[3])
      [] OTHER             -> <<>>

VarNamesOf(statements, i) ==
    IF i > Len(statements) THEN <<>>
    ELSE VarNames(statements[i]) \o VarNamesOf(statements, i + 1)

\* the k-th Var of the body of frame f is the last one of its name
LastOfName(names, k) == \A j \in (k + 1)..Len(names) : names[j] # names[k]

(* C4: the k-th Var statement emitted in a function body (k from 1) is     *)
(* recorded at offset -24 - 8 * (k - 1) from fp, and every Var moves       *)
(* next_local_offset, which starts at -20, down by 8.                      *)
C4_VarOffsets ==
    \A n \in 1..Len(frames) :
        LET names == VarNames(frames[n].function[4])
        IN  /\ frames[n].initial.next_local_offset = -20
            /\ frames[n].env.next_local_offset = -20 - 8 * Len(names)
            /\ \A k \in 1..Len(names) :
                  LastOfName(names, k)
                  => frames[n].env.locals[names[k]] = -24 - 8 * (k - 1)

\* C4 as stated: the k-th Var is recorded at offset -20 - 8 * (k - 1)
C4_VarOffsetsAsStated ==
    \A n \in 1..Len(frames) :
        LET names == VarNames(frames[n].function[4])
        IN  \A k \in 1..Len(names) :
               LastOfName(names, k)
               => frames[n].env.locals[names[k]] = -20 - 8 * (k - 1)

\* a function whose body declares three locals has been generated
C4_ThreeVarsGenerated ==
    \E n \in 1..Len(frames) : Len(VarNames(frames[n].function[4])) >= 3

\* the If and While nodes of a tree
RECURSIVE Conditionals(_)
RECURSIVE ConditionalsOf(_, _)
Conditionals(node) ==
    CASE node[1] = "Block"    -> ConditionalsOf(node[2], 1)
      [] node[1] = "If"       -> 1 + Conditionals(node[3]) + Conditionals(node[4])
      [] node[1] = "While"    -> 1 + Conditionals(node[3])
      [] node[1] = "Function" -> Conditionals(node[4])
      [] OTHER                -> 0

ConditionalsOf(statements, i) ==
    IF i > Len(statements) THEN 0
    ELSE Conditionals(statements[i]) + ConditionalsOf(statements, i + 1)

\* the positions of the buffer that define a local label
LabelDefinitions ==
    {i \in 1..Len(buffer) : buffer[i][1] = "label" /\ buffer[i][2][1] = ".L"}

\* no local label is defined twice, every branch targets a label defined
\* exactly once, and every If and While has two labels of its own: the
\* counter, which starts at 0, equals the number of labels defined
LabelsDefinedOnce ==
    /\ \A i, j \in LabelDefinitions : buffer[i] = buffer[j] => i = j
    /\ \A i \in 1..Len(buffer) :
          buffer[i][1] = "b"
          => Cardinality({j \in LabelDefinitions : buffer[j][2] = buffer[i][3]}) = 1
    /\ Cardinality(LabelDefinitions) = 2 * ConditionalsOf(emitted, 1)
    /\ LABEL = Cardinality(LabelDefinitions)

(* C7: within one compilation no label .L<n> is defined twice, every       *)
(* branch targets a label defined exactly once, each If and each While     *)
(* receives two fresh labels, and the counter never decreases.             *)
C7_LabelsUnique == []LabelsDefinedOnce /\ [][LABEL' >= LABEL]_vars

\* two statements with conditionals, one of them nested, have been emitted
C7_SixLabelsMinted == panic = "" /\ LABEL >= 6 /\ Len(emitted) = 2

-----------------------------------------------------------------------------
(* SpecRun: the emitted code run on the target.  The machine holds the     *)
(* registers, the condition flags (as the operands of the last cmp) and    *)
(* the words of the stack and of the heap, every one of which starts with  *)
(* the same unknown content, junk.  pc is a position in the buffer; 0 is   *)
(* the return address of the runtime that called main.  calls, returned    *)
(* and loads record the run: the activations entered by a call and not yet *)
(* left, the returns made so far (each with the position of its pop), and  *)
(* the addresses read by ldr.                                              *)

RegNames == {"r0", "r1", "r2", "r3", "r4", "ip", "fp", "sp", "lr"}

StackTop == 4 * 1024

HeapBase == 8 * 1024

\* the words the stack and the heap can hold
MaxStackWords == 40

MaxHeapWords == 8

\* the activations that can be open at once
MaxCalls == 3

StackAddrs == {StackTop - 4 * k : k \in 1..MaxStackWords}

HeapAddrs == {HeapBase + 4 * k : k \in 0..(MaxHeapWords - 1)}

Running == fault = "" /\ pc \in 1..Len(code)

\* the condition codes after cmp a, b
CondHolds(cond) ==
    CASE cond = "al" -> TRUE
      [] cond = "eq" -> flags[1] = flags[2]
      [] cond = "ne" -> flags[1] # flags[2]
      [] cond = "hs" -> UGe(flags[1], flags[2])
      [] cond = "lo" -> ULt(flags[1], flags[2])
      [] cond = "hi" -> UGe(flags[1], flags[2]) /\ flags[1] # flags[2]

IsLabel(i, lab) == code[i][1] = "label" /\ code[i][2] = lab

Defined(lab) == \E i \in 1..Len(code) : IsLabel(i, lab)

\* the first line that defines the label
LabelIndex(lab) ==
    CHOOSE i \in 1..Len(code) :
        IsLabel(i, lab) /\ \A j \in 1..(i - 1) : ~IsLabel(j, lab)

Externals == {"malloc", "putchar"}

Halt(why) ==
    /\ fault' = why
    /\ UNCHANGED <<program, code, pc, regs, mem, flags, heap, junk, calls,
                   returned, loads>>

Quiet == UNCHANGED <<drvVars, tcVars, genVars, LABEL, thrVars>>

\* push {reglist}: the registers, lowest first, below the stack pointer
ExecPush ==
    /\ Running /\ code[pc][1] = "push"
    /\ LET rs == code[pc][2]
           sp == regs["sp"] - 4 * Len(rs)
           at == {sp + 4 * (i - 1) : i \in 1..Len(rs)}
       IN  IF ~(at \subseteq DOMAIN mem) THEN Halt("stack overflow")
           ELSE /\ mem' = [a \in DOMAIN mem |->
                              IF a \in at THEN regs[rs[(a - sp) \div 4 + 1]] ELSE mem[a]]
                /\ regs' = [regs EXCEPT !["sp"] = sp]
                /\ pc' = pc + 1
                /\ UNCHANGED <<program, code, flags, heap, junk, calls, returned,
                               loads, fault>>
    /\ Quiet

\* pop {reglist}; with pc in the list it is the return of the activation
\* on top of calls
ExecPop ==
    /\ Running /\ code[pc][1] = "pop"
    /\ LET rs == code[pc][2]
           sp == regs["sp"]
           at == {sp + 4 * (i - 1) : i \in 1..Len(rs)}
           val(r) == mem[sp + 4 * ((CHOOSE i \in 1..Len(rs) : rs[i] = r) - 1)]
           after == [r \in RegNames |->
                        IF r = "sp" THEN sp + 4 * Len(rs)
                        ELSE IF r \in Range(rs) THEN val(r) ELSE regs[r]]
       IN  IF ~(at \subseteq DOMAIN mem) THEN Halt("stack underflow")
           ELSE IF "pc" \in Range(rs)
           THEN IF calls = <<>> THEN Halt("return without a call")
                ELSE /\ regs' = after
                     /\ pc' = val("pc")
                     /\ calls' = SubSeq(calls, 1, Len(calls) - 1)
                     /\ returned' = Append(returned,
                                    [name   |-> calls[Len(calls)].name,
                                     args   |-> calls[Len(calls)].args,
                                     sp_in  |-> calls[Len(calls)].sp,
                                     sp_out |-> after["sp"],
                                     lr     |-> calls[Len(calls)].lr,
                                     pc     |-> val("pc"),
                                     at     |-> pc,
                                     r0     |-> after["r0"]])
                     /\ UNCHANGED <<program, code, mem, flags, heap, junk, loads, fault>>
           ELSE /\ regs' = after
                /\ pc' = pc + 1
                /\ UNCHANGED <<program, code, mem, flags, heap, junk, calls,
                               returned, loads, fault>>
    /\ Quiet

\* mov rd, rs; mov<c> rd, #imm; ldr rd, =value
ExecMov ==
    /\ Running /\ code[pc][1] \in {"movr", "movi", "ldrc"}
    /\ LET i == code[pc]
       IN  regs' = CASE i[1] = "movr" -> [regs EXCEPT ![i[2]] = regs[i[3]]]
                     [] i[1] = "movi" -> IF CondHolds(i[2])
                                         THEN [regs EXCEPT ![i[3]] = i[4]]
                                         ELSE regs
                     [] i[1] = "ldrc" -> [regs EXCEPT ![i[2]] = i[3]]
    /\ pc' = pc + 1
    /\ UNCHANGED <<program, code, mem, flags, heap, junk, calls, returned, loads, fault>>
    /\ Quiet

\* ldr rd, [rn, #k]; ldr<c> rd, [rn, rm]
ExecLoad ==
    /\ Running /\ code[pc][1] \in {"ldri", "ldrr"}
    /\ LET i    == code[pc]
           cond == IF i[1] = "ldri" THEN "al" ELSE i[2]
           rd   == IF i[1] = "ldri" THEN i[2] ELSE i[3]
           addr == IF i[1] = "ldri" THEN Add32(regs[i[3]], i[4])
                                    ELSE Add32(regs[i[4]], regs[i[5]])
       IN  IF ~CondHolds(cond)
           THEN /\ pc' = pc + 1
                /\ UNCHANGED <<program, code, regs, mem, flags, heap, junk, calls,
                               returned, loads, fault>>
           ELSE IF addr \notin DOMAIN mem THEN Halt("load outside memory")
           ELSE /\ regs' = [regs EXCEPT ![rd] = mem[addr]]
                /\ loads' = loads \cup {addr}
                /\ pc' = pc + 1
                /\ UNCHANGED <<program, code, mem, flags, heap, junk, calls,
                               returned, fault>>
    /\ Quiet

\* str rs, [rn, #k]
ExecStore ==
    /\ Running /\ code[pc][1] = "stri"
    /\ LET i    == code[pc]
           addr == Add32(regs[i[3]], i[4])
       IN  IF addr \notin DOMAIN mem THEN Halt("store outside memory")
           ELSE /\ mem' = [mem EXCEPT ![addr] = regs[i[2]]]
                /\ pc' = pc + 1
                /\ UNCHANGED <<program, code, regs, flags, heap, junk, calls,
                               returned, loads, fault>>
    /\ Quiet

\* cmp rn, rm; cmp rn, #k
ExecCmp ==
    /\ Running /\ code[pc][1] \in {"cmpr", "cmpi"}
    /\ LET i == code[pc]
       IN  flags' = <<regs[i[2]], IF i[1] = "cmpr" THEN regs[i[3]] ELSE i[3]>>
    /\ pc' = pc + 1
    /\ UNCHANGED <<program, code, regs, mem, heap, junk, calls, returned, loads, fault>>
    /\ Quiet

\* op rd, rn, rm computes rn op rm
Alu(op, n, m) ==
    CASE op = "add"  -> Add32(n, m)
      [] op = "sub"  -> Sub32(n, m)
      [] op = "mul"  -> Mul32(n, m)
      [] op = "udiv" -> UDiv32(n, m)
      [] op = "lsl"  -> Mul32(n, 2 ^ m)

\* add, sub, mul, udiv rd, rn, rm; add<c>, lsl<c> rd, rn, #k; sub rd, rn, #k
ExecAlu ==
    /\ Running /\ code[pc][1] \in {"alu", "addi", "subi", "lsli"}
    /\ LET i == code[pc]
       IN  regs' = CASE i[1] = "alu"  ->
                            [regs EXCEPT ![i[3]] = Alu(i[2], regs[i[4]], regs[i[5]])]
                     [] i[1] = "subi" ->
                            [regs EXCEPT ![i[2]] = Sub32(regs[i[3]], i[4])]
                     [] i[1] = "addi" ->
                            IF CondHolds(i[2])
                            THEN [regs EXCEPT ![i[3]] = Add32(regs[i[4]], i[5])]
                            ELSE regs
                     [] i[1] = "lsli" ->
                            IF CondHolds(i[2])
                            THEN [regs EXCEPT ![i[3]] = Alu("lsl", regs[i[4]], i[5])]
                            ELSE regs
    /\ pc' = pc + 1
    /\ UNCHANGED <<program, code, mem, flags, heap, junk, calls, returned, loads, fault>>
    /\ Quiet

\* b label; beq label
ExecBranch ==
    /\ Running /\ code[pc][1] = "b"
    /\ LET i == code[pc]
       IN  IF ~CondHolds(i[2])
           THEN pc' = pc + 1 /\ fault' = fault
           ELSE IF Defined(i[3])
                THEN pc' = LabelIndex(i[3]) /\ fault' = fault
                ELSE pc' = pc /\ fault' = "undefined label"
    /\ UNCHANGED <<program, code, regs, mem, flags, heap, junk, calls, returned, loads>>
    /\ Quiet

\* name: and .global name take no step of their own on the target; here
\* they are passed over
ExecLabel ==
    /\ Running /\ code[pc][1] \in {"label", "global"}
    /\ pc' = pc + 1
    /\ UNCHANGED <<program, code, regs, mem, flags, heap, junk, calls, returned,
                   loads, fault>>
    /\ Quiet

\* the caller-saved registers after a call of an external function
Clobbered(result) ==
    [regs EXCEPT !["r0"] = result, !["r1"] = junk, !["r2"] = junk,
                 !["r3"] = junk, !["ip"] = junk, !["lr"] = pc + 1]

\* bl name: a function of the program, or malloc or putchar of the runtime
ExecCall ==
    /\ Running /\ code[pc][1] = "bl"
    /\ LET name == code[pc][2]
           size == regs["r0"]
       IN  IF Defined(<<"fn", name>>)
           THEN IF Len(calls) >= MaxCalls THEN Halt("too many calls")
                ELSE /\ regs' = [regs EXCEPT !["lr"] = pc + 1]
                     /\ pc' = LabelIndex(<<"fn", name>>)
                     /\ calls' = Append(calls,
                                    [name |-> name,
                                     args |-> <<regs["r0"], regs["r1"],
                                                regs["r2"], regs["r3"]>>,
                                     sp   |-> regs["sp"],
                                     lr   |-> pc + 1])
                     /\ UNCHANGED <<program, code, mem, flags, heap, junk, returned,
                                    loads, fault>>
           ELSE IF name = "malloc"
           THEN IF size < 0 \/ size > 4 * MaxHeapWords
                   \/ heap + size > HeapBase + 4 * MaxHeapWords
                THEN Halt("out of memory")
                ELSE /\ regs' = Clobbered(heap)
                     /\ heap' = heap + size
                     /\ pc' = pc + 1
                     /\ UNCHANGED <<program, code, mem, flags, junk, calls, returned,
                                    loads, fault>>
           ELSE IF name = "putchar"
           THEN /\ regs' = Clobbered(regs["r0"])
                /\ pc' = pc + 1
                /\ UNCHANGED <<program, code, mem, flags, heap, junk, calls, returned,
                               loads, fault>>
           ELSE Halt("undefined symbol")
    /\ Quiet

\* the programs run: each is the top-level Block of a source file that
\* defines main, which the runtime calls with two arguments
SubMain  == Fn("main", <<"a", "b">>, Block(<< Return(Sub(Id("a"), Id("b"))) >>))

DivMain  == Fn("main", <<"a", "b">>, Block(<< Return(Div(Id("a"), Id("b"))) >>))

MixMain ==
    Fn("main", <<"a", "b">>,
       Block(<< Return(Sub(Sub(Id("a"), Num(1)), Div(Num(6), Num(2)))) >>))

LookupMain ==
    Fn("main", <<"i">>,
       Block(<< Var("x", ArrayLiteral(<<Num(10), Num(20), Num(30)>>)),
                Return(ArrayLookup(Id("x"), Id("i"))) >>))

LookupTen ==
    Fn("main", <<>>,
       Block(<< Var("x", ArrayLiteral(<<Num(1), Num(2), Num(3)>>)),
                Return(ArrayLookup(Id("x"), Num(10))) >>))

LoopMain ==
    Fn("main", <<"a", "b">>,
       Block(<< Var("n", Num(2)),
                Var("s", Num(0)),
                While(NotEqual(Id("n"), Num(0)),
                      Block(<< Var("t", Add(Id("s"), Id("a"))),
                               Assignment("s", Id("t")),
                               Assignment("n", Sub(Id("n"), Num(1))) >>)),
                If(Equal(Id("s"), Id("b")),
                   Return(Mul(Id("s"), Num(2))),
                   Block(<< Var("u", Id("s")) >>)),
                Call("putchar", <<Id("s")>>) >>))

AddFn == Fn("add", <<"a", "b">>, Block(<< Return(Add(Id("a"), Id("b"))) >>))

Sum4Fn ==
    Fn("sum4", <<"a", "b", "c", "d">>,
       Block(<< Var("t", Add(Add(Id("a"), Id("b")), Add(Id("c"), Id("d")))),
                If(Equal(Id("t"), Num(0)), Return(Num(7)), Block(<<>>)),
                Var("l", ArrayLength(ArrayLiteral(<<Id("t"), Call("add", <<Id("a"), Id("t")>>)>>))) >>))

CallMain ==
    Fn("main", <<"a", "b">>,
       Block(<< Var("x", Call("add", <<Id("a"), Call("add", <<Id("b"), Num(1)>>)>>)),
                Var("y", Call("sum4", <<Id("a"), Id("b"), Id("x"), Num(0)>>)),
                Return(Sub(Id("x"), Id("y"))) >>))

\* a function defined inside the body of another
OuterFn ==
    Fn("outer", <<"p">>,
       Block(<< Var("a", Id("p")),
                Fn("inner", <<"q">>, Block(<< Var("b", Id("q")) >>)),
                Return(Id("a")) >>))

NestedMain == Fn("main", <<"a">>, Block(<< Return(Call("outer", <<Id("a")>>)) >>))

\* a declaration in a branch that is not taken, and one after it
SkipMain ==
    Fn("main", <<"a", "b">>,
       Block(<< If(Equal(Id("a"), Id("b")),
                   Block(<< Var("x", Num(1)) >>),
                   Block(<<>>)),
                Var("y", Add(Id("a"), Num(7))),
                Return(Id("y")) >>))

RunPrograms ==
    { Block(<<SubMain>>), Block(<<DivMain>>), Block(<<MixMain>>),
      Block(<<LookupMain>>), Block(<<LookupTen>>), Block(<<LoopMain>>),
      Block(<<AddFn, Sum4Fn, CallMain>>), Block(<<OuterFn, NestedMain>>),
      Block(<<SkipMain>>) }

ArgValues == {-1, 0, 2, 3, 6}

JunkValues == {0, 57005}

\* the code of a program, generated as generate_code does
Compiled(p) == emit_ast(p, DefaultEnvironment, 0)

InitRun ==
    /\ DrvIdle /\ TcIdle /\ GenIdle /\ ThrIdle
    /\ LABEL = 0
    /\ program \in RunPrograms
    /\ code = Compiled(program).code
    /\ pc = LabelIndex(<<"fn", "main">>)
    /\ junk \in JunkValues
    /\ \E a \in ArgValues, b \in ArgValues :
          /\ regs = [r \in RegNames |->
                        CASE r = "r0" -> a
                          [] r = "r1" -> b
                          [] r = "sp" -> StackTop
                          [] r = "fp" -> StackTop + 8
                          [] r = "lr" -> 0
                          [] OTHER    -> junk]
          /\ calls = << [name |-> "main", args |-> <<a, b, junk, junk>>,
                         sp |-> StackTop, lr |-> 0] >>
    /\ mem = [a \in StackAddrs \cup HeapAddrs |-> junk]
    /\ flags = <<0, 0>>
    /\ heap = HeapBase
    /\ returned = <<>>
    /\ loads = {}
    /\ fault = ""

NextRun ==
    \/ ExecPush
    \/ ExecPop
    \/ ExecMov
    \/ ExecLoad
    \/ ExecStore
    \/ ExecCmp
    \/ ExecAlu
    \/ ExecBranch
    \/ ExecLabel
    \/ ExecCall

SpecRun == InitRun /\ [][NextRun]_vars

-----------------------------------------------------------------------------
(* What the source language means by an arithmetic expression over the     *)
(* parameters of main: the operands of every operator in source order.     *)

RECURSIVE IsArithmetic(_, _)
IsArithmetic(e, params) ==
    CASE e[1] = "Number" -> TRUE
      [] e[1] = "Identifier" -> e[2] \in Range(params)
      [] e[1] \in {"Addition", "Subtraction", "Multiplication", "Division"} ->
            IsArithmetic(e[2], params) /\ IsArithmetic(e[3], params)
      [] OTHER -> FALSE

RECURSIVE Value(_, _, _)
Value(e, params, args) ==
    CASE e[1] = "Number"         -> e[2]
      [] e[1] = "Identifier"     -> args[IndexOf(params, e[2])]
      [] e[1] = "Addition"       -> Add32(Value(e[2], params, args), Value(e[3], params, args))
      [] e[1] = "Subtraction"    -> Sub32(Value(e[2], params, args), Value(e[3], params, args))
      [] e[1] = "Multiplication" -> Mul32(Value(e[2], params, args), Value(e[3], params, args))
      [] e[1] = "Division"       -> UDiv32(Value(e[2], params, args), Value(e[3], params, args))

\* no division of the expression has an operand that is zero
RECURSIVE NoZeroOperand(_, _, _)
NoZeroOperand(e, params, args) ==
    CASE e[1] \in {"Number", "Identifier"} -> TRUE
      [] e[1] = "Division" ->
            /\ Value(e[2], params, args) # 0 /\ Value(e[3], params, args) # 0
            /\ NoZeroOperand(e[2], params, args) /\ NoZeroOperand(e[3], params, args)
      [] OTHER -> NoZeroOperand(e[2], params, args) /\ NoZeroOperand(e[3], params, args)

\* the Function node of main in the program run, its parameters and the
\* statements of its body
MainFunction ==
    LET fs == program[2] IN fs[CHOOSE i \in 1..Len(fs) : fs[i][2] = "main"]

MainParams == ParamNames(MainFunction[3][2])

MainBody == MainFunction[4][2]

\* main is `return e;` for an arithmetic expression e
MainReturnsArithmetic ==
    /\ Len(MainBody) = 1
    /\ MainBody[1][1] = "Return"
    /\ IsArithmetic(MainBody[1][2], MainParams)

ReturnsOfMain == {i \in 1..Len(returned) : returned[i].name = "main"}

(* C2: for every Subtraction(l, r) and Division(l, r) the emitted code     *)
(* leaves value(l) - value(r), respectively the unsigned quotient          *)
(* value(l) / value(r), in r0: when main, whose body returns such an       *)
(* expression, returns, r0 is the expression's value with every operator's *)
(* operands taken in source order.                                         *)
C2_OperandOrder ==
    \A i \in ReturnsOfMain :
        (/\ MainReturnsArithmetic
         /\ MainBody[1][2][1] \in {"Subtraction", "Division"}
         /\ NoZeroOperand(MainBody[1][2], MainParams, returned[i].args))
        => returned[i].r0 = Value(MainBody[1][2], MainParams, returned[i].args)

\* the part of C2 that the code meets: a subtraction of two parameters
C2_SubtractionOnly ==
    \A i \in ReturnsOfMain :
        program = Block(<<SubMain>>)
        => returned[i].r0 = Sub32(returned[i].args[1], returned[i].args[2])

(* C5: every generated function returns with the stack pointer it was      *)
(* entered with: at each return, sp after the `pop {fp, pc}` equals sp at  *)
(* the function's entry label.                                             *)
C5_StackDiscipline ==
    \A i \in 1..Len(returned) : returned[i].sp_out = returned[i].sp_in

\* C5 holds of the programs in which no function is defined inside another
C5_WithoutNestedFunctions ==
    program # Block(<<OuterFn, NestedMain>>) => C5_StackDiscipline

\* main is `var x = [e1, ..., en]; return x[index];` with number literals
\* e1..en and an index that is a number literal or the first parameter
MainLooksUp ==
    /\ Len(MainBody) = 2
    /\ MainBody[1][1] = "Var"
    /\ MainBody[1][3][1] = "ArrayLiteral"
    /\ MainBody[2][1] = "Return"
    /\ MainBody[2][2][1] = "ArrayLookup"
    /\ MainBody[2][2][2] = Id(MainBody[1][2])

LookupElements == MainBody[1][3][2]

LookupIndex(args) ==
    LET index == MainBody[2][2][3]
    IN  IF index[1] = "Number" THEN index[2] ELSE args[1]

\* the addresses of the element words of the array that main allocates
ElementAddrs == {HeapBase + 4 * k : k \in 1..Len(LookupElements)}

(* C6: an array lookup tests index < length unsigned.  When the index is   *)
(* not below the length, a negative index included, r0 is 0 and no element *)
(* word has been loaded; otherwise r0 is the word at base + 4 + 4 * index  *)
(* and that word has been loaded.  Neither case faults.                    *)
C6_ArrayLookup ==
    MainLooksUp =>
        /\ fault = ""
        /\ \A i \in ReturnsOfMain :
              LET index == LookupIndex(returned[i].args)
                  n == Len(LookupElements)
              IN  IF ULt(index, n)
                  THEN /\ returned[i].r0 = LookupElements[index + 1][2]
                       /\ returned[i].r0 = mem[HeapBase + 4 + 4 * index]
                       /\ loads \cap ElementAddrs = {HeapBase + 4 + 4 * index}
                  ELSE /\ returned[i].r0 = 0
                       /\ loads \cap ElementAddrs = {}

\* main has returned from a lookup with a negative index
C6_NegativeIndexReturned ==
    /\ MainLooksUp
    /\ \E i \in ReturnsOfMain : LookupIndex(returned[i].args) < 0

-----------------------------------------------------------------------------
(* SpecLabel: make_label called from several threads.  LABEL is one        *)
(* process-wide AtomicUsize that starts at 0; a call is the atomic         *)
(* fetch_add followed by the formatting of the value it fetched, which is  *)
(* private to the calling thread.                                          *)

NumThreads == 3

\* the calls each thread makes
MaxInvocations == 2

Threads == 1..NumThreads

InitLabel ==
    /\ DrvIdle /\ TcIdle /\ GenIdle /\ RunIdle
    /\ LABEL = 0
    /\ tpc = [t \in Threads |-> "call"]
    /\ tvalue = [t \in Threads |-> 0]
    /\ tlabels = [t \in Threads |-> <<>>]

\* fetch_add as a load and a later store of the value loaded plus one
LoadThenStore(t) ==
    \/ /\ tpc[t] = "call"
       /\ Len(tlabels[t]) < MaxInvocations
       /\ tvalue' = [tvalue EXCEPT ![t] = LABEL]
       /\ tpc' = [tpc EXCEPT ![t] = "store"]
       /\ UNCHANGED <<LABEL, tlabels>>
    \/ /\ tpc[t] = "store"
       /\ LABEL' = tvalue[t] + 1
       /\ tpc' = [tpc EXCEPT ![t] = "format"]
       /\ UNCHANGED <<tvalue, tlabels>>

\* let value = LABEL.fetch_add(1, Ordering::SeqCst)
FetchAdd(t) ==
    /\ tpc[t] = "call"
    /\ Len(tlabels[t]) < MaxInvocations
    /\ tvalue' = [tvalue EXCEPT ![t] = LABEL]
    /\ LABEL' = LABEL + 1
    /\ tpc' = [tpc EXCEPT ![t] = "format"]
    /\ UNCHANGED tlabels

\* format!(".L{}", value), returned to the caller
FormatLabel(t) ==
    /\ tpc[t] = "format"
    /\ tlabels' = [tlabels EXCEPT ![t] = Append(@, <<".L", tvalue[t]>>)]
    /\ tpc' = [tpc EXCEPT ![t] = "call"]
    /\ UNCHANGED <<LABEL, tvalue>>

NextLabel ==
    /\ \E t \in Threads : FetchAdd(t) \/ FormatLabel(t)
    /\ UNCHANGED <<drvVars, tcVars, genVars, runVars>>

SpecLabel == InitLabel /\ [][NextLabel]_vars

\* the invocations whose fetch_add has been done, of threads 1..t
RECURSIVE Fetched(_)
Fetched(t) ==
    IF t = 0 THEN 0
    ELSE Len(tlabels[t]) + (IF tpc[t] = "format" THEN 1 ELSE 0) + Fetched(t - 1)

(* C8: when make_label is invoked from several threads, under every        *)
(* interleaving no two invocations return the same label, and after k      *)
(* invocations the counter equals its initial value, 0, plus k.            *)
C8_ConcurrentLabels ==
    /\ \A t, u \in Threads :
          \A i \in 1..Len(tlabels[t]), j \in 1..Len(tlabels[u]) :
             tlabels[t][i] = tlabels[u][j] => (t = u /\ i = j)
    /\ LABEL = Fetched(NumThreads)

\* every thread has returned from all its invocations
C8_AllReturned == \A t \in Threads : Len(tlabels[t]) = MaxInvocations

-----------------------------------------------------------------------------
(* SpecCheck: type checking.  A checker is constructed as main.rs          *)
(* constructs the one of the top-level block (no locals, putchar, no       *)
(* return type) or as the Function arm constructs the one of a function    *)
(* body (the parameters, the functions known so far, the declared return   *)
(* type).  Each step is one turn of the Block arm's loop: check on the     *)
(* next statement, drawn from CheckStatements.  checked holds the last     *)
(* call: its node, the checker before it, the type it yielded, its panic   *)
(* and the number of calls so far.  A panic ends the process.              *)

IdType == FunctionType(<< <<"a", Number>> >>, Number)

Checkers ==
    { Checker(EmptyMap, InitialFunctions, <<>>),
      Checker(ParamsMap(<< <<"n", Number>>, <<"b", Boolean>> >>),
              MapInsert(InitialFunctions, "id", IdType), <<Number>>),
      Checker(ParamsMap(<< <<"xs", ArrayOf(Number)>> >>),
              InitialFunctions, <<Boolean>>) }

\* the statements checked
MaxChecked == 3

CheckStatements ==
    { Var("x", Undef),
      Var("x", Num(1)),
      Var("y", Bool(TRUE)),
      Var("xs", ArrayLiteral(<<Num(1), Num(2)>>)),
      Assignment("x", Num(2)),
      Assignment("x", Bool(FALSE)),
      Assignment("x", Undef),
      Assignment("x", ArrayLiteral(<<Bool(TRUE)>>)),
      Assignment("y", Id("x")),
      Assignment("n", Id("b")),
      Assignment("z", Num(1)),
      Assignment("xs", ArrayLiteral(<<Bool(TRUE)>>)),
      Assignment("y", Not(Num(1))),
      Equal(Id("x"), Bool(TRUE)),
      NotEqual(Undef, Id("y")),
      Equal(Num(1), Bool(TRUE)),
      Not(Undef),
      Not(Id("x")),
      Add(Id("x"), Num(1)),
      Mul(Num(1), Undef),
      Sub(Bool(TRUE), Undef),
      Call("putchar", <<Id("x")>>),
      Call("putchar", <<Bool(TRUE)>>),
      Call("id", <<Undef>>),
      Return(Undef),
      Return(Id("x")),
      Function("id", IdType, Block(<< Return(Id("a")) >>)),
      Function("g", FunctionType(<<>>, Boolean),
               Block(<< Var("u", Undef), Assignment("u", Num(1)),
                        Assignment("u", Bool(TRUE)), Return(Id("u")) >>)),
      If(Id("x"), Block(<< Var("y", Num(3)) >>), Block(<< Assignment("x", Num(4)) >>)),
      Call("id", <<>>),
      Call("id", <<Num(1), Bool(TRUE)>>),
      Call("id", <<Bool(TRUE)>>),
      Call("nope", <<Num(1)>>),
      ArrayLiteral(<<>>),
      ArrayLiteral(<<Num(1), Bool(TRUE)>>),
      ArrayLiteral(<<Undef, Num(1)>>),
      ArrayLiteral(<<Num(1), Undef, Bool(TRUE)>>),
      ArrayLiteral(<<Num(1), Id("x"), Id("y")>>),
      Var("m", ArrayLiteral(<<Num(1), Undef, Bool(TRUE)>>)),
      Function("r", FunctionType(<< <<"k", Number>> >>, Number),
               Block(<< Return(Call("r", <<Id("k")>>)) >>)),
      Function("h", FunctionType(<<>>, Number), Block(<< Return(Id("x")) >>)),
      Function("o", FunctionType(<< <<"x", Boolean>> >>, Boolean),
               Block(<< Function("inner", FunctionType(<<>>, Void), Block(<<>>)),
                        Var("w", Call("inner", <<>>)),
                        Return(Id("x")) >>)),
      Call("inner", <<>>),
      Call("r", <<Num(1)>>),
      Assignment("w", Null),
      Return(Num(1)),
      Return(Bool(TRUE)),
      If(Bool(TRUE), Block(<< Return(Num(1)) >>), Block(<<>>)),
      While(Bool(TRUE),
            Block(<< If(Bool(TRUE), Block(<< Return(Bool(TRUE)) >>), Block(<<>>)) >>)),
      Function("w", FunctionType(<<>>, Number),
               Block(<< While(Bool(TRUE),
                              Block(<< If(Bool(TRUE), Block(<< Return(Num(0)) >>),
                                          Block(<< Return(Bool(TRUE)) >>)) >>)) >>)),
      Function("v", FunctionType(<<>>, Number),
               Block(<< If(Bool(TRUE), Block(<< Return(Num(1)) >>),
                           Block(<< Return(Undef) >>)) >>)) }

InitCheck ==
    /\ DrvIdle /\ GenIdle /\ RunIdle /\ ThrIdle
    /\ LABEL = 0
    /\ \E c \in Checkers :
          /\ locals = c.locals
          /\ functions = c.functions
          /\ current_return_type = c.current_return_type
    /\ checked = <<>>

CheckStatement(node) ==
    /\ \/ checked = <<>>
       \/ Len(checked) = 1 /\ checked[1].panic = "" /\ checked[1].n < MaxChecked
    /\ LET st == Checker(locals, functions, current_return_type)
           r  == check(node, st)
       IN  /\ locals' = r.locals
           /\ functions' = r.functions
           /\ checked' = << [node   |-> node,
                             before |-> st,
                             type   |-> r.type,
                             panic  |-> r.panic,
                             n      |-> IF checked = <<>> THEN 1 ELSE checked[1].n + 1] >>
    /\ UNCHANGED <<current_return_type, LABEL, drvVars, genVars, runVars, thrVars>>

NextCheck == \E node \in CheckStatements : CheckStatement(node)

SpecCheck == InitCheck /\ [][NextCheck]_vars

\* the type check yields for an expression in the checker before the last
\* call, and whether that check returns
TypeBefore(e) == check(e, checked[1].before).type

ChecksBefore(e) == check(e, checked[1].before).panic = ""

IsUndefined(t) == TypeEq(t, Undefined)

LastNode == checked[1].node

LastPassed == checked[1].panic = ""

TypePool == {Boolean, Number, Void, Undefined, ArrayOf(Number), ArrayOf(Undefined), IdType}

(* C9: Undefined is a wildcard.  assert_type returns whenever either side  *)
(* is Undefined, so a check passes when its operands check and every pair  *)
(* it compares has an Undefined side: the two sides of Equal / NotEqual,   *)
(* the declared and the assigned type of an Assignment, each argument and  *)
(* its parameter in a Call, the declared and the returned type of a        *)
(* Return, the operand of Not and of an arithmetic operator.  A passing    *)
(* assignment to a variable of type Undefined leaves its type Undefined.   *)
C9_UndefinedWildcard ==
    /\ \A t \in TypePool : assert_type(Undefined, t) = "" /\ assert_type(t, Undefined) = ""
    /\ Len(checked) = 1 =>
        /\ (/\ LastNode[1] \in {"Equal", "NotEqual"}
            /\ ChecksBefore(LastNode[2]) /\ ChecksBefore(LastNode[3])
            /\ IsUndefined(TypeBefore(LastNode[2])) \/ IsUndefined(TypeBefore(LastNode[3])))
           => LastPassed
        /\ (/\ LastNode[1] = "Assignment"
            /\ LastNode[2] \in DOMAIN checked[1].before.locals
            /\ ChecksBefore(LastNode[3])
            /\ \/ IsUndefined(checked[1].before.locals[LastNode[2]])
               \/ IsUndefined(TypeBefore(LastNode[3])))
           => /\ LastPassed
              /\ locals = checked[1].before.locals
        /\ (/\ LastNode[1] = "Call"
            /\ LastNode[2] \in DOMAIN checked[1].before.functions
            /\ \A i \in 1..Len(LastNode[3]) : ChecksBefore(LastNode[3][i])
            /\ \A i \in 1..Len(LastNode[3]) :
                  i <= Len(checked[1].before.functions[LastNode[2]][2])
                  => \/ IsUndefined(TypeBefore(LastNode[3][i]))
                     \/ IsUndefined(checked[1].before.functions[LastNode[2]][2][i][2]))
           => LastPassed
        /\ (/\ LastNode[1] = "Return"
            /\ Len(current_return_type) = 1
            /\ ChecksBefore(LastNode[2])
            /\ \/ IsUndefined(TypeBefore(LastNode[2]))
               \/ IsUndefined(current_return_type[1]))
           => LastPassed
        /\ (/\ LastNode[1] = "Not"
            /\ ChecksBefore(LastNode[2])
            /\ IsUndefined(TypeBefore(LastNode[2])))
           => LastPassed
        /\ (/\ LastNode[1] \in {"Addition", "Subtraction", "Multiplication", "Division"}
            /\ ChecksBefore(LastNode[2]) /\ ChecksBefore(LastNode[3])
            /\ \A k \in {2, 3} : \/ IsUndefined(TypeBefore(LastNode[k]))
                                 \/ TypeEq(TypeBefore(LastNode[k]), Number)
            /\ IsUndefined(TypeBefore(LastNode[2])) \/ IsUndefined(TypeBefore(LastNode[3])))
           => LastPassed

\* after `var x = undefined;` and an assignment of a number, an assignment
\* of a boolean to x has passed
C9_AssignedBothTypes ==
    /\ Len(checked) = 1
    /\ checked[1].n = 3
    /\ LastNode = Assignment("x", Bool(FALSE))
    /\ LastPassed
    /\ IsUndefined(locals["x"])
    /\ current_return_type = <<>>

(* C10: Assignment(name, expr) is fatal when name is not in locals, and    *)
(* fatal when the declared type T and the type U of expr differ and        *)
(* neither is Undefined; when it passes, the recorded type of every local  *)
(* is unchanged and the node yields Void.                                  *)
C10_Assignment ==
    (Len(checked) = 1 /\ LastNode[1] = "Assignment") =>
        /\ LastNode[2] \notin DOMAIN checked[1].before.locals => ~LastPassed
        /\ (/\ LastNode[2] \in DOMAIN checked[1].before.locals
            /\ ChecksBefore(LastNode[3])
            /\ ~IsUndefined(checked[1].before.locals[LastNode[2]])
            /\ ~IsUndefined(TypeBefore(LastNode[3]))
            /\ ~TypeEq(checked[1].before.locals[LastNode[2]], TypeBefore(LastNode[3])))
           => ~LastPassed
        /\ LastPassed => /\ locals = checked[1].before.locals
                         /\ functions = checked[1].before.functions
                         /\ checked[1].type = Void

\* an assignment of a boolean to a local declared with a number has been
\* rejected
C10_MismatchRejected ==
    /\ Len(checked) = 1
    /\ LastNode = Assignment("x", Bool(FALSE))
    /\ "x" \in DOMAIN checked[1].before.locals
    /\ TypeEq(checked[1].before.locals["x"], Number)
    /\ checked[1].panic = "Type mismatch"

\* the callee of the last call and its parameter types, in the checker
\* before the call
Callee == checked[1].before.functions[LastNode[2]]

CalleeParams == ParamTypes(Callee[2])

Min(a, b) == IF a <= b THEN a ELSE b

\* the two types are equal or one of them is Undefined
Compatible(t, u) == IsUndefined(t) \/ IsUndefined(u) \/ TypeEq(t, u)

(* C11: Call(name, args) is fatal when name is not in functions.           *)
(* Otherwise every argument is checked (a fatal argument is fatal for the  *)
(* call), the i-th argument is asserted against the i-th parameter for     *)
(* every i up to the shorter of the two lists and a mismatch is fatal,     *)
(* positions beyond the shorter list are not compared, and a call that     *)
(* passes yields the declared return type of the callee.                   *)
C11_Call ==
    (Len(checked) = 1 /\ LastNode[1] = "Call") =>
        /\ LastNode[2] \notin DOMAIN checked[1].before.functions => ~LastPassed
        /\ LastNode[2] \in DOMAIN checked[1].before.functions =>
            /\ (\E i \in 1..Len(LastNode[3]) : ~ChecksBefore(LastNode[3][i])) => ~LastPassed
            /\ (\A i \in 1..Len(LastNode[3]) : ChecksBefore(LastNode[3][i])) =>
                /\ LastPassed <=>
                      \A i \in 1..Min(Len(LastNode[3]), Len(CalleeParams)) :
                          Compatible(TypeBefore(LastNode[3][i]), CalleeParams[i])
                /\ LastPassed => /\ TypeEq(checked[1].type, Callee[3])
                                 /\ locals = checked[1].before.locals
                                 /\ functions = checked[1].before.functions

\* a call with more arguments than parameters has passed, the second
\* argument of a type no parameter has
C11_ExtraArgumentAccepted ==
    /\ Len(checked) = 1
    /\ LastNode = Call("id", <<Num(1), Bool(TRUE)>>)
    /\ "id" \in DOMAIN checked[1].before.functions
    /\ LastPassed
    /\ TypeEq(checked[1].type, Number)

\* the types the elements of the last array literal yield before the call
ElementTypes == [i \in 1..Len(LastNode[2]) |-> TypeBefore(LastNode[2][i])]

(* C12: an ArrayLiteral without elements is fatal; one with elements       *)
(* passes only if its elements are pairwise of matching types, every       *)
(* element against every other one (an Undefined side counted as a         *)
(* match), and then yields Array{T} with T a type every element matches.   *)
C12_ArrayLiteral ==
    (Len(checked) = 1 /\ LastNode[1] = "ArrayLiteral") =>
        /\ Len(LastNode[2]) = 0 => ~LastPassed
        /\ LastPassed =>
            /\ \A i, j \in 1..Len(LastNode[2]) : Compatible(ElementTypes[i], ElementTypes[j])
            /\ checked[1].type[1] = "Array"
            /\ \A i \in 1..Len(LastNode[2]) : Compatible(ElementTypes[i], checked[1].type[2])

\* what the reduce of the ArrayLiteral arm does compare: each element with
\* the next one, and the type of the last element is the element type
C12_AdjacentElements ==
    (Len(checked) = 1 /\ LastNode[1] = "ArrayLiteral") =>
        /\ Len(LastNode[2]) = 0 => ~LastPassed
        /\ (Len(LastNode[2]) > 0 /\ \A i \in 1..Len(LastNode[2]) : ChecksBefore(LastNode[2][i])) =>
            /\ LastPassed <=>
                  \A i \in 1..(Len(LastNode[2]) - 1) :
                      Compatible(ElementTypes[i], ElementTypes[i + 1])
            /\ LastPassed =>
                  TypeEq(checked[1].type, ArrayOf(ElementTypes[Len(LastNode[2])]))

\* the last call with the locals and the expected return type of the
\* enclosing checker replaced
LastFrom(ls, rt) == check(LastNode, Checker(ls, checked[1].before.functions, rt))

(* C19: a Function node registers its signature and then checks its body   *)
(* in a fresh checker: the locals are the declared parameters, the         *)
(* functions are the enclosing ones with the function itself, the          *)
(* expected return type is the declared one.  So the outcome does not      *)
(* depend on the locals or on the return type of the enclosing checker, a  *)
(* call of the function in its own body resolves, and after a passing      *)
(* check the enclosing locals are unchanged and the enclosing functions    *)
(* have gained this function and no other; the node yields Void.           *)
C19_FunctionScope ==
    (Len(checked) = 1 /\ LastNode[1] = "Function") =>
        /\ LastPassed <=>
              check(LastNode[4],
                    Checker(ParamsMap(LastNode[3][2]),
                            MapInsert(checked[1].before.functions, LastNode[2], LastNode[3]),
                            <<LastNode[3][3]>>)).panic = ""
        /\ \A rt \in {<<>>, <<Number>>, <<Boolean>>} :
              LastFrom(EmptyMap, rt).panic = checked[1].panic
        /\ check(Call(LastNode[2], <<>>),
                 Checker(ParamsMap(LastNode[3][2]),
                         MapInsert(checked[1].before.functions, LastNode[2], LastNode[3]),
                         <<LastNode[3][3]>>)).panic = ""
        /\ LastPassed =>
              /\ locals = checked[1].before.locals
              /\ functions = MapInsert(checked[1].before.functions, LastNode[2], LastNode[3])
              /\ checked[1].type = Void

\* a function that calls itself has been checked where it was not yet
\* registered, next to locals of the enclosing scope
C19_RecursiveFunctionChecked ==
    /\ Len(checked) = 1
    /\ LastNode[1] = "Function" /\ LastNode[2] = "r"
    /\ "r" \notin DOMAIN checked[1].before.functions
    /\ "x" \in DOMAIN checked[1].before.locals
    /\ LastPassed
    /\ "r" \in DOMAIN functions /\ "k" \notin DOMAIN locals

\* the expressions of the Return nodes a statement holds, reached through
\* If, While and Block and not through a Function
RECURSIVE ReturnsIn(_)
ReturnsIn(node) ==
    CASE node[1] = "Return" -> {node[2]}
      [] node[1] = "If"     -> ReturnsIn(node[3]) \cup ReturnsIn(node[4])
      [] node[1] = "While"  -> ReturnsIn(node[3])
      [] node[1] = "Block"  -> UNION {ReturnsIn(node[2][i]) : i \in 1..Len(node[2])}
      [] OTHER -> {}

IsLiteral(e) == e[1] \in {"Number", "Bool", "Undefined", "Null"}

\* the type of a literal, the same in every checker
LiteralType(e) ==
    CASE e[1] = "Number"    -> Number
      [] e[1] = "Bool"      -> Boolean
      [] e[1] = "Undefined" -> Undefined
      [] e[1] = "Null"      -> Void

(* C20: Return(expr) is fatal where there is no expected return type (the  *)
(* top level), and inside a function it is fatal when the type of expr     *)
(* and the declared return type differ and neither is Undefined.  A        *)
(* Return inside If, While or Block is held to the same expected return    *)
(* type: that of the checker at the top level of a body, the declared one  *)
(* for the body of a Function node.                                        *)
C20_Return ==
    Len(checked) = 1 =>
        /\ LastNode[1] = "Return" =>
            /\ checked[1].before.current_return_type = <<>> => ~LastPassed
            /\ (/\ Len(checked[1].before.current_return_type) = 1
                /\ ChecksBefore(LastNode[2]))
               => /\ LastPassed <=> Compatible(checked[1].before.current_return_type[1],
                                               TypeBefore(LastNode[2]))
                  /\ LastPassed => checked[1].type = Void
        /\ (LastNode[1] \in {"If", "While", "Block"} /\ ReturnsIn(LastNode) # {}) =>
            /\ checked[1].before.current_return_type = <<>> => ~LastPassed
            /\ LastPassed =>
                  \A e \in ReturnsIn(LastNode) :
                      IsLiteral(e) => Compatible(checked[1].before.current_return_type[1],
                                                 LiteralType(e))
        /\ (LastNode[1] = "Function" /\ LastPassed) =>
              \A e \in ReturnsIn(LastNode[4]) :
                  IsLiteral(e) => Compatible(LastNode[3][3], LiteralType(e))

\* a function declared to return a number whose body returns a boolean
\* from an If inside a While has been rejected
C20_NestedReturnRejected ==
    /\ Len(checked) = 1
    /\ LastNode[1] = "Function" /\ LastNode[2] = "w"
    /\ Bool(TRUE) \in ReturnsIn(LastNode[4])
    /\ checked[1].panic = "Type mismatch"

\* whether the tree holds a Call with more than four arguments or a
\* Function with more than four parameters
RECURSIVE TooMany(_)
TooMany(node) ==
    CASE node[1] \in {"Null", "Undefined", "Number", "Bool", "Identifier"} -> FALSE
      [] node[1] \in {"Not", "ArrayLength", "Return"} -> TooMany(node[2])
      [] node[1] \in {"Equal", "NotEqual", "Addition", "Subtraction",
                      "Multiplication", "Division", "ArrayLookup"} ->
            TooMany(node[2]) \/ TooMany(node[3])
      [] node[1] \in {"Var", "Assignment"} -> TooMany(node[3])
      [] node[1] \in {"ArrayLiteral", "Block"} ->
            \E i \in 1..Len(node[2]) : TooMany(node[2][i])
      [] node[1] = "Call" ->
            Len(node[3]) > MaxArguments \/ \E i \in 1..Len(node[3]) : TooMany(node[3][i])
      [] node[1] = "If" -> TooMany(node[2]) \/ TooMany(node[3]) \/ TooMany(node[4])
      [] node[1] = "While" -> TooMany(node[2]) \/ TooMany(node[3])
      [] node[1] = "Function" -> Len(node[3][2]) > MaxArguments \/ TooMany(node[4])

TooManyMessage == "More than four arguments are not supported"

(* C17: code generation is fatal, and nothing is printed, for every tree   *)
(* that holds a Call with more than four arguments or a Function with more *)
(* than four parameters; a tree none of whose calls and functions exceeds  *)
(* four never raises this error.                                           *)
C17_FourArguments ==
    /\ (phase \in {"parsed", "checked", "generated", "printed", "panicked"} /\ TooMany(ast))
       => /\ phase \notin {"generated", "printed"}
          /\ output = <<>>
    /\ panic = TooManyMessage
       => /\ phase = "panicked" /\ TooMany(ast) /\ output = <<>>

\* code generation has stopped at a call with five arguments that the type
\* checker had accepted
C17_FiveArgumentsRejected ==
    /\ phase = "panicked"
    /\ panic = TooManyMessage
    /\ Len(checked) = 1 /\ checked[1].panic = ""
    /\ \E i \in 1..Len(ast[2]) : ast[2][i][1] = "Call" /\ Len(ast[2][i][3]) = 5

\* the steps of the driver: the phase moves along parse, typecheck,
\* generate_code, print or into a panic, a phase that has not started has
\* left nothing behind, and the output is written from a finished buffer
PhaseStep ==
    /\ <<phase, phase'>> \in { <<"read", "parsed">>, <<"read", "panicked">>,
                               <<"parsed", "checked">>, <<"parsed", "panicked">>,
                               <<"checked", "generated">>, <<"checked", "panicked">>,
                               <<"generated", "printed">> }
    /\ phase = "read" => checked' = <<>> /\ buffer' = <<>>
    /\ phase = "parsed" => ast' = ast /\ buffer' = <<>> /\ Len(checked') = 1
    /\ phase = "checked" => ast' = ast /\ checked' = checked
    /\ output' # output => phase = "generated" /\ panic = "" /\ output' = buffer

PhaseState ==
    /\ phase \in {"read", "parsed"} => checked = <<>> /\ buffer = <<>>
    /\ phase = "checked" => Len(checked) = 1 /\ checked[1].panic = "" /\ buffer = <<>>
    /\ phase = "generated" => Len(checked) = 1 /\ checked[1].panic = "" /\ panic = ""
    /\ phase = "panicked" =>
          /\ output = <<>>
          /\ checked = <<>> => buffer = <<>>
          /\ (checked # <<>> /\ checked[1].panic # "") => buffer = <<>>
    /\ phase # "printed" => output = <<>>
    /\ phase = "printed" => output = buffer /\ panic = ""

(* C18: parse, type check and code generation run in this order, each      *)
(* after the one before has finished, and the output is written only from  *)
(* the buffer of a code generation that has finished.  A fatal error of    *)
(* the type checker or of the code generator ends the compilation: no      *)
(* later phase runs and nothing is written, whatever the buffer holds.     *)
C18_PhaseOrder == [][PhaseStep]_vars /\ []PhaseState

\* the code generator has panicked with code in its buffer and nothing has
\* been written
C18_PartialBufferDiscarded ==
    /\ phase = "panicked"
    /\ Len(checked) = 1 /\ checked[1].panic = ""
    /\ buffer # <<>>
    /\ panic # ""
    /\ output = <<>>

-----------------------------------------------------------------------------
(* SpecParse: one parser of parser/expression.rs applied to one text.  The *)
(* texts are written out from shapes: a call or a lookup of a name with    *)
(* arguments from a pool, a chain of terms and operators.  The shape says  *)
(* which tree the text stands for; the parser sees the characters only.    *)

\* the texts of a sequence one after the other, sep between two of them
RECURSIVE Concat(_, _)
Concat(texts, sep) ==
    IF texts = <<>> THEN <<>>
    ELSE IF Len(texts) = 1 THEN texts[1]
         ELSE texts[1] \o sep \o Concat(Tail(texts), sep)

\* argument expressions: the text and the tree it stands for
ArgPool ==
    { [text |-> <<"1">>, node |-> Num(1)],
      [text |-> <<"g", "(", "2", ")">>, node |-> Call("g", <<Num(2)>>)],
      [text |-> <<"1", " ", "+", " ", "y">>, node |-> Add(Num(1), Id("y"))] }

\* names: identifiers, and words that are also tokens of the grammar
NamePool ==
    { <<"f">>, <<"g", "1">>, <<"n", "u", "l", "l">>, <<"t", "r", "u", "e">>,
      <<"l", "e", "n", "g", "t", "h">> }

\* the number of arguments of a call written out
MaxArgs == 2

ArgLists == UNION {[1..n -> ArgPool] : n \in 0..MaxArgs}

\* what follows the atom in the text
Suffixes == { <<>>, <<";">>, <<"+", " ", "2">> }

Pads == { <<>>, <<" ">> }

CallShapes ==
    [name : NamePool, args : ArgLists, pad : Pads, suffix : Suffixes]

LookupShapes ==
    [name : NamePool, index : ArgPool, pad : Pads, suffix : Suffixes]

\* name(arg, arg) followed by the suffix
CallText(sh) ==
    sh.name \o sh.pad \o <<"(">> \o sh.pad
    \o Concat([i \in 1..Len(sh.args) |-> sh.args[i].text], sh.pad \o <<",", " ">>)
    \o <<")">> \o sh.pad \o sh.suffix

\* name[index] followed by the suffix
LookupText(sh) ==
    sh.name \o sh.pad \o <<"[">> \o sh.index.text \o sh.pad \o <<"]">> \o sh.pad \o sh.suffix

AtomTexts == {CallText(sh) : sh \in CallShapes} \cup {LookupText(sh) : sh \in LookupShapes}

\* the binary operators: the text, the variant and the level of the
\* grammar that parses it (1 comparison, 2 sum, 3 product)
Operators ==
    { [text |-> <<"=", "=">>, kind |-> "Equal",          level |-> 1],
      [text |-> <<"!", "=">>, kind |-> "NotEqual",       level |-> 1],
      [text |-> <<"+">>,      kind |-> "Addition",       level |-> 2],
      [text |-> <<"-">>,      kind |-> "Subtraction",    level |-> 2],
      [text |-> <<"*">>,      kind |-> "Multiplication", level |-> 3],
      [text |-> <<"/">>,      kind |-> "Division",       level |-> 3] }

\* the number of operators of a chain written out
MaxOps == 3

\* a chain: its operators in order, between the terms 1, 2, ..., and the
\* position of the one term written with a `!`, 0 for none
ChainShapes ==
    UNION { [ops : [1..k -> Operators], negated : 0..(k + 1)] : k \in 0..MaxOps }

\* the i-th term of a chain and its text
Term(sh, i) == IF sh.negated = i THEN Not(Num(i)) ELSE Num(i)

TermText(sh, i) == IF sh.negated = i THEN <<"!", Digits[i + 1]>> ELSE <<Digits[i + 1]>>

\* the tokens of the chain from its i-th term on, a space between two
RECURSIVE ChainFrom(_, _)
ChainFrom(sh, i) ==
    IF i > Len(sh.ops) THEN TermText(sh, i)
    ELSE TermText(sh, i) \o <<" ">> \o sh.ops[i].text \o <<" ">> \o ChainFrom(sh, i + 1)

ChainText(sh) == ChainFrom(sh, 1)

\* the rest of the chain from its i-th operator on
RestFrom(sh, i) ==
    IF i > Len(sh.ops) THEN <<>>
    ELSE sh.ops[i].text \o <<" ">> \o ChainFrom(sh, i + 1)

ChainTexts == {ChainText(sh) : sh \in ChainShapes}

\* the parsers applied, each with the level of the operators it folds
Parsers ==
    { [name |-> "make_expression_parser", level |-> 1],
      [name |-> "make_comparison_parser", level |-> 1],
      [name |-> "make_sum_parser",        level |-> 2],
      [name |-> "make_product_parser",    level |-> 3],
      [name |-> "make_unary_parser",      level |-> 4],
      [name |-> "make_atom_parser",       level |-> 5] }

InitParse ==
    /\ TcIdle /\ GenIdle /\ RunIdle /\ ThrIdle
    /\ LABEL = 0
    /\ source \in AtomTexts \cup ChainTexts
    /\ phase = "read"
    /\ ast = Null
    /\ output = <<>>
    /\ applied = ""
    /\ outcome = <<>>

\* parser.parse(source)
ApplyParser(p) ==
    /\ phase = "read"
    /\ applied' = p.name
    /\ outcome' = parse(p.name, source)
    /\ phase' = "applied"
    /\ UNCHANGED <<source, ast, output, tcVars, genVars, LABEL, runVars, thrVars>>

NextParse == \E p \in Parsers : ApplyParser(p)

SpecParse == InitParse /\ [][NextParse]_vars

\* the trees of the arguments of a call shape
ArgNodes(sh) == [i \in 1..Len(sh.args) |-> sh.args[i].node]

\* the one call that the array_length alternative, tried first, takes
IsLength(sh) == sh.name = <<"l", "e", "n", "g", "t", "h">> /\ Len(sh.args) = 1

RECURSIVE Words(_, _)
Words(text, word) ==
    IF text = <<>> THEN <<word>>
    ELSE IF text[1] = " " THEN <<word>> \o Words(Tail(text), <<>>)
         ELSE Words(Tail(text), Append(word, text[1]))

\* whether the source is the text of a chain, and the chain it is the text
\* of: the operators are its even words, the negated term is the odd word
\* that starts with `!`
IsChain == source # <<>> /\ source[1] \in {"!"} \cup DigitSet

Chain ==
    LET words == Words(source, <<>>)
        k     == Len(words) \div 2
    IN  [ops     |-> [i \in 1..k |-> CHOOSE o \in Operators : o.text = words[2 * i]],
         negated |-> IF \E i \in 1..(k + 1) : words[2 * i - 1][1] = "!"
                     THEN CHOOSE i \in 1..(k + 1) : words[2 * i - 1][1] = "!"
                     ELSE 0]

\* the parser applied
Applied == CHOOSE p \in Parsers : p.name = applied

\* the chain up to its k-th operator, nested to the left
RECURSIVE LeftNest(_, _)
LeftNest(sh, k) ==
    IF k = 0 THEN Term(sh, 1)
    ELSE <<sh.ops[k].kind, LeftNest(sh, k - 1), Term(sh, k + 1)>>

\* all operators of the chain are of one level, and there is one at least
OneLevel(sh, level) ==
    /\ Len(sh.ops) > 0
    /\ \A i \in 1..Len(sh.ops) : sh.ops[i].level = level

(* C14: at each binary level a chain t0 op1 t1 ... opk tk of operators of  *)
(* that level parses to the tree nested to the left,                       *)
(* (...((t0 op1 t1) op2 t2)... opk tk), each operator as its own variant   *)
(* in the order met, and the whole chain is consumed.                      *)
C14_LeftAssociative ==
    (/\ phase = "applied" /\ IsChain
     /\ Applied.level \in 1..3
     /\ OneLevel(Chain, Applied.level))
    => /\ Chain \in ChainShapes /\ source = ChainText(Chain)
       /\ outcome = ParseSome(LeftNest(Chain, Len(Chain.ops)), <<>>)

\* `1 - 2 - 3` has been parsed by the sum parser to
\* Subtraction(Subtraction(1, 2), 3)
C14_SubtractionChainParsed ==
    /\ phase = "applied" /\ applied = "make_sum_parser"
    /\ source = <<"1", " ", "-", " ", "2", " ", "-", " ", "3">>
    /\ outcome.kind = "Some"
    /\ outcome.value = Sub(Sub(Num(1), Num(2)), Num(3))
    /\ outcome.rest = <<>>

\* the terms of the chain a parser of the level takes: up to the first
\* operator of a lower level
Taken(sh, level) ==
    IF \E i \in 1..Len(sh.ops) : sh.ops[i].level < level
    THEN CHOOSE i \in 1..Len(sh.ops) :
            /\ sh.ops[i].level < level
            /\ \A j \in 1..(i - 1) : sh.ops[j].level >= level
    ELSE Len(sh.ops) + 1

\* the tree of the terms lo..hi of the chain by precedence: split at the
\* last operator of the lowest level present, the left part at the same
\* level, the right part one level up
RECURSIVE Precedence(_, _, _, _)
Precedence(sh, lo, hi, level) ==
    IF lo = hi THEN Term(sh, lo)
    ELSE IF \E j \in lo..(hi - 1) : sh.ops[j].level = level
         THEN LET last == CHOOSE j \in lo..(hi - 1) :
                            /\ sh.ops[j].level = level
                            /\ \A i \in (j + 1)..(hi - 1) : sh.ops[i].level # level
              IN  <<sh.ops[last].kind,
                    Precedence(sh, lo, last, level),
                    Precedence(sh, last + 1, hi, level + 1)>>
         ELSE Precedence(sh, lo, hi, level + 1)

(* C15: product operators bind tighter than sum operators, sum operators   *)
(* tighter than comparison operators, and `!` tighter than all of them,    *)
(* applying to the one atom after it.  Each level parser takes the chain   *)
(* up to the first operator of a lower level and yields its tree by        *)
(* precedence; the expression parser takes the whole chain.                *)
C15_Precedence ==
    (phase = "applied" /\ IsChain /\ Applied.level \in 1..4)
    => /\ Chain \in ChainShapes /\ source = ChainText(Chain)
       /\ outcome = ParseSome(Precedence(Chain, 1, Taken(Chain, Applied.level),
                                         Applied.level),
                              RestFrom(Chain, Taken(Chain, Applied.level)))

\* `1 == 2 + !3 * 4` has been parsed by the expression parser to
\* Equal(1, Addition(2, Multiplication(Not(3), 4)))
C15_ThreeLevelsParsed ==
    /\ phase = "applied" /\ applied = "make_expression_parser"
    /\ source = <<"1", " ", "=", "=", " ", "2", " ", "+", " ", "!", "3", " ", "*", " ", "4">>
    /\ outcome.kind = "Some"
    /\ outcome.value = Equal(Num(1), Add(Num(2), Mul(Not(Num(3)), Num(4))))
    /\ outcome.rest = <<>>

-----------------------------------------------------------------------------
(* SpecComb: the combinators of parser/combinators.rs on their own.  A     *)
(* parser is a term <<combinator, first, second>>: regex of a literal,     *)
(* and(p, q), bind(p) (the callback makes the parser of the text p         *)
(* matched, so the same text must follow again), or(p, q), maybe(p),       *)
(* zero_or_more(p); a part a combinator does not have is <<>>.             *)
(* ParsingFunction is the closure each combinator builds, with the source  *)
(* it hands to each of its parsers.                                        *)

Regex(literal)  == <<"regex", literal, <<>>>>
AndOf(p, q)     == <<"and", p, q>>
BindOf(p)       == <<"bind", p, <<>>>>
OrOf(p, q)      == <<"or", p, q>>
MaybeOf(p)      == <<"maybe", p, <<>>>>
ZeroOrMoreOf(p) == <<"zero_or_more", p, <<>>>>

RECURSIVE ParsingFunction(_, _)
RECURSIVE Loop(_, _, _)

\* the loop of zero_or_more from new_source on, results collected so far
Loop(p, results, new_source) ==
    zero_or_more(ParsingFunction(p, new_source), ParseSome(results, new_source),
                 LAMBDA v, s : Loop(p, Append(results, v), s))

ParsingFunction(term, input) ==
    CASE term[1] = "regex" -> MatchLiteral(term[2], input)
      [] term[1] = "and"   -> and(ParsingFunction(term[2], input), LAMBDA rest : ParsingFunction(term[3], rest))
      [] term[1] = "bind"  ->
            bind(ParsingFunction(term[2], input), LAMBDA value, rest : MatchLiteral(value, rest))
      [] term[1] = "or"    -> or(ParsingFunction(term[2], input), ParsingFunction(term[3], input))
      [] term[1] = "maybe" -> maybe(ParsingFunction(term[2], input), input)
      [] term[1] = "zero_or_more" -> Loop(term[2], <<>>, input)

\* the terms applied: literals, every combinator over them, and or, and,
\* maybe over those; zero_or_more only of terms that consume when they match
Literals == { Regex(<<"a">>), Regex(<<"b">>), Regex(<<"a", "b">>) }

Consuming ==
    Literals \cup {AndOf(p, q) : p, q \in Literals} \cup {BindOf(p) : p \in Literals}

Inner ==
    Consuming \cup {OrOf(p, q) : p, q \in Literals}
    \cup {MaybeOf(p) : p \in Literals}
    \cup {ZeroOrMoreOf(p) : p \in Literals}

Terms ==
    Inner \cup {OrOf(p, q) : p, q \in Inner} \cup {AndOf(p, q) : p, q \in Inner}
    \cup {MaybeOf(p) : p \in Inner}
    \cup {ZeroOrMoreOf(p) : p \in Consuming \cup {OrOf(q, r) : q, r \in Literals}}

\* the longest input
MaxLen == 3

Inputs == UNION {[1..n -> {"a", "b", "c"}] : n \in 0..MaxLen}

InitComb ==
    /\ TcIdle /\ GenIdle /\ RunIdle /\ ThrIdle
    /\ LABEL = 0
    /\ source \in Inputs
    /\ phase = "read"
    /\ ast = Null
    /\ output = <<>>
    /\ applied = <<>>
    /\ outcome = <<>>

\* parser.parse(source)
ApplyTerm(term) ==
    /\ phase = "read"
    /\ applied' = term
    /\ outcome' = ParsingFunction(term, source)
    /\ phase' = "applied"
    /\ UNCHANGED <<source, ast, output, tcVars, genVars, LABEL, runVars, thrVars>>

NextComb == \E term \in Terms : ApplyTerm(term)

SpecComb == InitComb /\ [][NextComb]_vars

\* the cursor of a parse as a position in the text, which is never changed:
\* the position after the match of the term at position i (i itself when
\* nothing is consumed), 0 when the term fails there.  A term that fails
\* leaves its caller at the position the caller was at.
RECURSIVE Cursor(_, _, _)
Cursor(term, text, i) ==
    CASE term[1] = "regex" ->
            IF /\ i + Len(term[2]) - 1 <= Len(text)
               /\ \A k \in 1..Len(term[2]) : text[i + k - 1] = term[2][k]
            THEN i + Len(term[2]) ELSE 0
      [] term[1] = "and" ->
            LET j == Cursor(term[2], text, i)
            IN  IF j = 0 THEN 0 ELSE Cursor(term[3], text, j)
      [] term[1] = "bind" ->
            LET j == Cursor(term[2], text, i)
            IN  IF j = 0 THEN 0
                ELSE IF /\ j + (j - i) - 1 <= Len(text)
                        /\ \A k \in 0..(j - i - 1) : text[j + k] = text[i + k]
                     THEN j + (j - i) ELSE 0
      [] term[1] = "or" ->
            LET j == Cursor(term[2], text, i)
            IN  IF j # 0 THEN j ELSE Cursor(term[3], text, i)
      [] term[1] = "maybe" ->
            LET j == Cursor(term[2], text, i)
            IN  IF j # 0 THEN j ELSE i
      [] term[1] = "zero_or_more" ->
            LET j == Cursor(term[2], text, i)
            IN  IF j = 0 THEN i ELSE Cursor(term, text, j)

(* C16: a parse that fails consumes nothing: the caller goes on from the   *)
(* cursor it had.  The outcome of every term is the one of a cursor moved  *)
(* over the unchanged text; and parses its second parser where the first   *)
(* one stopped and fails as a whole when either fails; or runs its second  *)
(* parser on the source it was given when the first fails, wherever the    *)
(* first one got to; maybe and zero_or_more always succeed, at the source  *)
(* left by the last match, which is the source they were given when there  *)
(* was none.                                                               *)
C16_NoPartialConsumption ==
    phase = "applied" =>
        /\ outcome.kind \in {"Some", "None"}
        /\ outcome.kind = "None" <=> Cursor(applied, source, 1) = 0
        /\ outcome.kind = "None" => outcome = ParseNone
        /\ outcome.kind = "Some" => outcome.rest = Drop(source, Cursor(applied, source, 1) - 1)
        /\ applied[1] = "and" =>
              IF ParsingFunction(applied[2], source).kind = "None" THEN outcome = ParseNone
              ELSE outcome = ParsingFunction(applied[3], ParsingFunction(applied[2], source).rest)
        /\ applied[1] = "or" =>
              IF ParsingFunction(applied[2], source).kind = "Some"
              THEN outcome = ParseSome(<<"Lhs", ParsingFunction(applied[2], source).value>>,
                                       ParsingFunction(applied[2], source).rest)
              ELSE IF ParsingFunction(applied[3], source).kind = "Some"
                   THEN outcome = ParseSome(<<"Rhs", ParsingFunction(applied[3], source).value>>,
                                            ParsingFunction(applied[3], source).rest)
                   ELSE outcome = ParseNone
        /\ applied[1] = "maybe" =>
              IF ParsingFunction(applied[2], source).kind = "Some"
              THEN outcome = ParseSome(<<ParsingFunction(applied[2], source).value>>,
                                       ParsingFunction(applied[2], source).rest)
              ELSE outcome = ParseSome(<<>>, source)
        /\ applied[1] = "zero_or_more" =>
              /\ outcome.kind = "Some"
              /\ ParsingFunction(applied[2], outcome.rest).kind = "None"
              /\ Len(outcome.value) = 0 <=> outcome.rest = source

\* or(and(a, b), a) on `ac`: the first alternative matched `a` and then
\* failed, the second one matched the `a` at the start
C16_SecondAlternativeFromStart ==
    /\ phase = "applied"
    /\ applied = OrOf(AndOf(Regex(<<"a">>), Regex(<<"b">>)), Regex(<<"a">>))
    /\ source = <<"a", "c">>
    /\ outcome = ParseSome(<<"Rhs", <<"a">>>>, <<"c">>)

-----------------------------------------------------------------------------
(* What a function of the source language computes: the value of an       *)
(* expression in a store of the function's parameters and locals, and the  *)
(* store and the returned value after a statement.  A value is a number,   *)
(* N(n), or an array of values, A(<<v1, ..., vn>>).  Numbers are 32 bits   *)
(* wide, true is 1, false, null and undefined are 0, a function that ends  *)
(* without a return yields 0, putchar yields its argument, and a lookup    *)
(* outside the array yields 0.                                             *)

\* the turns of loops and the calls followed before giving up
MaxSteps == 6

N(n) == <<"n", n>>

A(values) == <<"a", values>>

Truth(b) == IF b THEN N(1) ELSE N(0)

FunctionNamed(p, name) ==
    LET fs == p[2] IN fs[CHOOSE i \in 1..Len(fs) : fs[i][2] = name]

\* the parameters bound to the first arguments
Bind(params, args) == [n \in Range(params) |-> args[IndexOf(params, n)]]

Started(store) == [store |-> store, ret |-> <<>>]

ResultOf(st) == IF st.ret = <<>> THEN N(0) ELSE st.ret[1]

RECURSIVE EvalExpr(_, _, _, _)
RECURSIVE ExecStatement(_, _, _, _)
RECURSIVE ExecStatements(_, _, _, _, _)
RECURSIVE CallFunction(_, _, _, _)

EvalExpr(e, store, p, fuel) ==
    CASE e[1] = "Number"     -> N(e[2])
      [] e[1] = "Bool"       -> Truth(e[2])
      [] e[1] \in {"Null", "Undefined"} -> N(0)
      [] e[1] = "Identifier" -> store[e[2]]
      [] e[1] = "Not"        -> Truth(EvalExpr(e[2], store, p, fuel) = N(0))
      [] e[1] = "Addition"   ->
            N(Add32(EvalExpr(e[2], store, p, fuel)[2], EvalExpr(e[3], store, p, fuel)[2]))
      [] e[1] = "Subtraction" ->
            N(Sub32(EvalExpr(e[2], store, p, fuel)[2], EvalExpr(e[3], store, p, fuel)[2]))
      [] e[1] = "Multiplication" ->
            N(Mul32(EvalExpr(e[2], store, p, fuel)[2], EvalExpr(e[3], store, p, fuel)[2]))
      [] e[1] = "Equal" ->
            Truth(EvalExpr(e[2], store, p, fuel)[2] = EvalExpr(e[3], store, p, fuel)[2])
      [] e[1] = "NotEqual" ->
            Truth(EvalExpr(e[2], store, p, fuel)[2] # EvalExpr(e[3], store, p, fuel)[2])
      [] e[1] = "ArrayLiteral" ->
            A([i \in 1..Len(e[2]) |-> EvalExpr(e[2][i], store, p, fuel)])
      [] e[1] = "ArrayLength" ->
            N(Len(EvalExpr(e[2], store, p, fuel)[2]))
      [] e[1] = "ArrayLookup" ->
            LET elements == EvalExpr(e[2], store, p, fuel)[2]
                index    == EvalExpr(e[3], store, p, fuel)[2]
            IN  IF ULt(index, Len(elements)) THEN elements[index + 1] ELSE N(0)
      [] e[1] = "Call" ->
            CallFunction(e[2], [i \in 1..Len(e[3]) |-> EvalExpr(e[3][i], store, p, fuel)],
                         p, fuel)

CallFunction(name, args, p, fuel) ==
    IF name = "putchar" THEN args[1]
    ELSE IF fuel = 0 THEN N(0)
    ELSE LET f == FunctionNamed(p, name)
         IN  ResultOf(ExecStatement(f[4], Started(Bind(ParamNames(f[3][2]), args)),
                                    p, fuel - 1))

ExecStatement(s, st, p, fuel) ==
    IF st.ret # <<>> THEN st
    ELSE CASE s[1] = "Block" -> ExecStatements(s[2], 1, st, p, fuel)
           [] s[1] \in {"Var", "Assignment"} ->
                 [st EXCEPT !.store = MapInsert(@, s[2], EvalExpr(s[3], st.store, p, fuel))]
           [] s[1] = "If" ->
                 IF EvalExpr(s[2], st.store, p, fuel) # N(0)
                 THEN ExecStatement(s[3], st, p, fuel)
                 ELSE ExecStatement(s[4], st, p, fuel)
           [] s[1] = "While" ->
                 IF fuel = 0 \/ EvalExpr(s[2], st.store, p, fuel) = N(0) THEN st
                 ELSE ExecStatement(s, ExecStatement(s[3], st, p, fuel), p, fuel - 1)
           [] s[1] = "Return" ->
                 [st EXCEPT !.ret = <<EvalExpr(s[2], st.store, p, fuel)>>]
           [] OTHER -> st

ExecStatements(statements, i, st, p, fuel) ==
    IF i > Len(statements) THEN st
    ELSE ExecStatements(statements, i + 1, ExecStatement(statements[i], st, p, fuel), p, fuel)

\* the argument registers of a call, which hold numbers
Numbers(args) == [i \in 1..Len(args) |-> N(args[i])]

\* the word w is the value v: the number itself, or the address of a block
\* that holds the length of the array and then a word for each element
RECURSIVE Represents(_, _)
Represents(w, v) ==
    IF v[1] = "n" THEN w = v[2]
    ELSE /\ {w + 4 * k : k \in 0..Len(v[2])} \subseteq HeapAddrs
         /\ mem[w] = Len(v[2])
         /\ \A k \in 1..Len(v[2]) : Represents(mem[w + 4 * k], v[2][k])

\* what the function of the program that was entered with these argument
\* registers returns
Expected(name, args) == CallFunction(name, Numbers(args), program, MaxSteps)

\* whether it returns by a return statement
ExpectedByReturn(name, args) ==
    LET f == FunctionNamed(program, name)
    IN  ExecStatement(f[4], Started(Bind(ParamNames(f[3][2]), Numbers(args))),
                      program, MaxSteps - 1).ret # <<>>

-----------------------------------------------------------------------------
(* SpecExec: the machine of SpecRun on programs whose functions keep their *)
(* state in their parameters and in locals declared at the top of the      *)
(* body, and define no function inside another.                            *)

\* the end of the body reached after an assignment
EndMain == Fn("main", <<"a", "b">>, Block(<< Assignment("a", Add(Id("a"), Id("b"))) >>))

\* a return before other statements, among them another return
EarlyMain ==
    Fn("main", <<"a", "b">>,
       Block(<< If(Equal(Id("a"), Id("b")),
                   Block(<< Return(Add(Id("a"), Num(1))) >>),
                   Block(<<>>)),
                Assignment("b", Add(Id("b"), Num(1))),
                Return(Sub(Id("b"), Id("a"))),
                Assignment("b", Num(5)),
                Return(Num(9)) >>))

\* a return from inside a loop, or the end of the body after the loop
LoopReturnMain ==
    Fn("main", <<"a", "b">>,
       Block(<< Assignment("b", Num(3)),
                While(NotEqual(Id("b"), Num(0)),
                      Block(<< If(Equal(Id("b"), Id("a")),
                                  Return(Mul(Id("b"), Num(2))),
                                  Block(<<>>)),
                               Assignment("b", Sub(Id("b"), Num(1))) >>)) >>))

\* a callee that returns a value or runs to its end
PickFn ==
    Fn("pick", <<"p", "q">>,
       Block(<< If(Equal(Id("p"), Id("q")), Return(Id("p")), Block(<<>>)),
                Assignment("p", Num(8)) >>))

PickMain ==
    Fn("main", <<"a", "b">>,
       Block(<< Return(Add(Call("pick", <<Id("a"), Id("b")>>), Num(10))) >>))

\* each branch leaves its own mark, and so does the statement after the If
IfMain ==
    Fn("main", <<"a", "b">>,
       Block(<< If(Equal(Id("a"), Id("b")),
                   Block(<< Assignment("a", Add(Id("a"), Num(10))) >>),
                   Block(<< Assignment("a", Add(Id("a"), Num(20))) >>)),
                Return(Add(Mul(Id("a"), Num(2)), Id("b"))) >>))

\* an If in each branch of an If
NestedIfMain ==
    Fn("main", <<"a", "b">>,
       Block(<< If(Id("a"),
                   Block(<< If(Id("b"),
                               Block(<< Assignment("a", Num(1)) >>),
                               Block(<< Assignment("a", Num(2)) >>)),
                            Assignment("b", Add(Id("b"), Num(100))) >>),
                   Block(<< If(Equal(Id("b"), Num(2)),
                               Block(<< Assignment("a", Num(3)) >>),
                               Block(<< Assignment("a", Num(4)) >>)),
                            Assignment("b", Add(Id("b"), Num(200))) >>)),
                Return(Add(Id("a"), Id("b"))) >>))

\* a loop that runs a times (once for the arguments it would take long to
\* count down from), never when a is 0
WhileMain ==
    Fn("main", <<"a", "b">>,
       Block(<< If(Equal(Id("a"), Num(6)), Assignment("a", Num(1)), Block(<<>>)),
                If(Equal(Id("a"), Sub(Num(0), Num(1))), Assignment("a", Num(1)), Block(<<>>)),
                Assignment("b", Num(0)),
                While(NotEqual(Id("a"), Num(0)),
                      Block(<< Assignment("b", Add(Id("b"), Id("a"))),
                               Assignment("a", Sub(Id("a"), Num(1))) >>)),
                Return(Add(Id("b"), Num(1000))) >>))

\* a loop inside a loop, and a statement of the outer body after it
LoopsFn ==
    Fn("loops", <<"n", "m", "s">>,
       Block(<< While(NotEqual(Id("n"), Num(0)),
                      Block(<< Assignment("m", Num(2)),
                               While(NotEqual(Id("m"), Num(0)),
                                     Block(<< Assignment("s", Add(Id("s"), Id("n"))),
                                              Assignment("m", Sub(Id("m"), Num(1))) >>)),
                               Assignment("s", Add(Id("s"), Num(100))),
                               Assignment("n", Sub(Id("n"), Num(1))) >>)),
                Return(Id("s")) >>))

NestedWhileMain ==
    Fn("main", <<"a", "b">>,
       Block(<< If(Equal(Id("b"), Num(0)),
                   Return(Call("loops", <<Num(0), Num(0), Id("a")>>)),
                   Block(<<>>)),
                Return(Call("loops", <<Num(2), Num(0), Id("a")>>)) >>))

\* an array with a call among its elements
ArrayMain ==
    Fn("main", <<"a", "b">>,
       Block(<< Return(ArrayLiteral(<<Id("a"), Call("add", <<Id("a"), Id("b")>>),
                                      Add(Id("b"), Num(1))>>)) >>))

\* an array of arrays
NestedArrayMain ==
    Fn("main", <<"a", "b">>,
       Block(<< Return(ArrayLiteral(<<ArrayLiteral(<<Id("a"), Id("b")>>),
                                      ArrayLiteral(<<Call("add", <<Id("b"), Num(1)>>)>>)>>)) >>))

\* the length of an array and its elements, looked up inside and outside it
LengthMain ==
    Fn("main", <<"a", "b">>,
       Block(<< Var("y", ArrayLiteral(<<Id("b")>>)),
                Var("x", ArrayLiteral(<<Id("a"), ArrayLookup(Id("y"), Num(0)),
                                        Call("add", <<Id("a"), Id("b")>>)>>)),
                Return(Add(Mul(ArrayLength(Id("x")), Num(10)),
                           ArrayLookup(Id("x"), Id("b")))) >>))

\* elements that are calls of a function that builds an array of its own
BoxFn ==
    Fn("box", <<"p">>,
       Block(<< Var("t", ArrayLiteral(<<Add(Id("p"), Num(1))>>)),
                Return(Add(ArrayLookup(Id("t"), Num(0)), ArrayLength(Id("t")))) >>))

BoxesMain ==
    Fn("main", <<"a", "b">>,
       Block(<< Return(ArrayLiteral(<<Call("box", <<Id("a")>>), Call("box", <<Id("b")>>)>>)) >>))

\* functions of one to four parameters that tell their arguments apart
F1Fn == Fn("f1", <<"p">>, Block(<< Return(Add(Mul(Id("p"), Num(3)), Num(1))) >>))

F2Fn == Fn("f2", <<"p", "q">>, Block(<< Return(Add(Mul(Id("p"), Num(10)), Id("q"))) >>))

\* the parameters are read after a call made by the callee
F3Fn ==
    Fn("f3", <<"p", "q", "r">>,
       Block(<< Var("t", Call("f1", <<Id("r")>>)),
                Return(Add(Mul(Add(Mul(Add(Mul(Id("t"), Num(10)), Id("p")), Num(10)),
                                   Id("q")), Num(10)), Id("r"))) >>))

F4Fn ==
    Fn("f4", <<"p", "q", "r", "s">>,
       Block(<< Return(Add(Mul(Add(Mul(Add(Mul(Id("p"), Num(10)), Id("q")), Num(10)),
                                   Id("r")), Num(10)), Id("s"))) >>))

OneArgMain ==
    Fn("main", <<"a", "b">>,
       Block(<< Return(Call("f1", <<Add(Call("f1", <<Id("a")>>), Id("b"))>>)) >>))

TwoArgsMain ==
    Fn("main", <<"a", "b">>,
       Block(<< Return(Call("f2", <<Call("f2", <<Id("b"), Id("a")>>),
                                    Call("f1", <<Id("a")>>)>>)) >>))

ThreeArgsMain ==
    Fn("main", <<"a", "b">>,
       Block(<< Return(Call("f3", <<Id("a"), Call("f2", <<Id("a"), Id("b")>>),
                                    Add(Id("b"), Num(1))>>)) >>))

FourArgsMain ==
    Fn("main", <<"a", "b">>,
       Block(<< Return(Call("f4", <<Id("b"), Call("f1", <<Id("a")>>),
                                    Call("f4", <<Id("a"), Id("a"), Id("b"), Id("b")>>),
                                    Sub(Id("a"), Id("b"))>>)) >>))

ExecPrograms ==
    { Block(<<EndMain>>), Block(<<EarlyMain>>), Block(<<LoopReturnMain>>),
      Block(<<PickFn, PickMain>>), Block(<<IfMain>>), Block(<<NestedIfMain>>),
      Block(<<WhileMain>>), Block(<<LoopsFn, NestedWhileMain>>),
      Block(<<AddFn, ArrayMain>>), Block(<<AddFn, NestedArrayMain>>),
      Block(<<AddFn, LengthMain>>), Block(<<BoxFn, BoxesMain>>),
      Block(<<F1Fn, OneArgMain>>), Block(<<F1Fn, F2Fn, TwoArgsMain>>),
      Block(<<F1Fn, F2Fn, F3Fn, ThreeArgsMain>>), Block(<<F1Fn, F4Fn, FourArgsMain>>) }

InitExec ==
    /\ DrvIdle /\ TcIdle /\ GenIdle /\ ThrIdle
    /\ LABEL = 0
    /\ program \in ExecPrograms
    /\ code = Compiled(program).code
    /\ pc = LabelIndex(<<"fn", "main">>)
    /\ junk \in JunkValues
    /\ \E a \in ArgValues, b \in ArgValues :
          /\ regs = [r \in RegNames |->
                        CASE r = "r0" -> a
                          [] r = "r1" -> b
                          [] r = "sp" -> StackTop
                          [] r = "fp" -> StackTop + 8
                          [] r = "lr" -> 0
                          [] OTHER    -> junk]
          /\ calls = << [name |-> "main", args |-> <<a, b, junk, junk>>,
                         sp |-> StackTop, lr |-> 0] >>
    /\ mem = [a \in StackAddrs \cup HeapAddrs |-> junk]
    /\ flags = <<0, 0>>
    /\ heap = HeapBase
    /\ returned = <<>>
    /\ loads = {}
    /\ fault = ""

NextExec ==
    \/ ExecPush
    \/ ExecPop
    \/ ExecMov
    \/ ExecLoad
    \/ ExecStore
    \/ ExecCmp
    \/ ExecAlu
    \/ ExecBranch
    \/ ExecLabel
    \/ ExecCall

SpecExec == InitExec /\ [][NextExec]_vars

(* C21: a function that reaches the end of its body returns with r0 = 0,   *)
(* by the pop after `mov r0, #0`; one that executes Return(expr) returns   *)
(* with r0 the value of expr, by the pop of that Return, so that nothing   *)
(* after the Return has run.  Both come after `mov sp, fp`, return to the  *)
(* address the call left in lr and leave sp as it was at entry.            *)
C21_FunctionResult ==
    /\ fault = ""
    /\ \A i \in 1..Len(returned) :
          LET r == returned[i]
          IN  /\ Represents(r.r0, Expected(r.name, r.args))
              /\ IF ExpectedByReturn(r.name, r.args)
                 THEN code[r.at - 1] = <<"movr", "sp", "fp">>
                 ELSE /\ code[r.at - 1] = <<"movi", "al", "r0", 0>>
                      /\ code[r.at - 2] = <<"movr", "sp", "fp">>
                      /\ r.r0 = 0
              /\ r.pc = r.lr
              /\ r.sp_out = r.sp_in

\* main has returned 4 from inside its loop, where b met a = 2
C21_ReturnedFromLoop ==
    /\ program = Block(<<LoopReturnMain>>)
    /\ \E i \in ReturnsOfMain :
          /\ returned[i].args[1] = 2
          /\ returned[i].r0 = 4
          /\ code[returned[i].at - 1] = <<"movr", "sp", "fp">>

-----------------------------------------------------------------------------
(* The conditional branches of the code that runs.  The label a `beq`      *)
(* targets follows an unconditional branch: forward, to the end label,     *)
(* when the `beq` is the one of an If; back, to the start label, when it   *)
(* is the one of a While.                                                  *)

IsLocalLabel(i) == code[i][1] = "label" /\ code[i][2][1] = ".L"

Definitions(lab) == {j \in 1..Len(code) : IsLabel(j, lab)}

BranchesIfZero == {i \in 1..Len(code) : code[i][1] = "b" /\ code[i][2] = "eq"}

Target(i) == LabelIndex(code[i][3])

\* the unconditional branch in front of the target of the beq at i
JumpOf(i) == Target(i) - 1

IfBranches ==
    {i \in BranchesIfZero :
        /\ Defined(code[i][3]) /\ JumpOf(i) > i
        /\ code[JumpOf(i)][1] = "b" /\ code[JumpOf(i)][2] = "al"
        /\ Defined(code[JumpOf(i)][3])
        /\ Target(JumpOf(i)) > Target(i)}

WhileBranches ==
    {i \in BranchesIfZero :
        /\ Defined(code[i][3]) /\ JumpOf(i) > i
        /\ code[JumpOf(i)][1] = "b" /\ code[JumpOf(i)][2] = "al"
        /\ Defined(code[JumpOf(i)][3])
        /\ Target(JumpOf(i)) < i}

\* the If nodes and the While nodes of a tree
RECURSIVE NodesOfKind(_, _)
RECURSIVE NodesOfKindIn(_, _, _)
NodesOfKind(node, kind) ==
    CASE node[1] = "Block"    -> NodesOfKindIn(node[2], 1, kind)
      [] node[1] = "If"       ->
            (IF kind = "If" THEN 1 ELSE 0)
            + NodesOfKind(node[3], kind) + NodesOfKind(node[4], kind)
      [] node[1] = "While"    ->
            (IF kind = "While" THEN 1 ELSE 0) + NodesOfKind(node[3], kind)
      [] node[1] = "Function" -> NodesOfKind(node[4], kind)
      [] OTHER                -> 0

NodesOfKindIn(statements, i, kind) ==
    IF i > Len(statements) THEN 0
    ELSE NodesOfKind(statements[i], kind) + NodesOfKindIn(statements, i + 1, kind)

\* every function that has returned left in r0 what its source yields
ReturnsAsExpected ==
    \A i \in 1..Len(returned) :
        Represents(returned[i].r0, Expected(returned[i].name, returned[i].args))

\* the code of each If: cmp r0, #0 and beq else after the condition, a
\* jump to the end label before the else label, the end label after the
\* alternative, labels of its own, and an If inside it wholly in one branch
IfShape ==
    /\ Cardinality(IfBranches) = NodesOfKind(program, "If")
    /\ \A i \in IfBranches :
          LET else == Target(i)
              end  == Target(JumpOf(i))
          IN  /\ code[i - 1] = <<"cmpi", "r0", 0>>
              /\ Cardinality(Definitions(code[i][3])) = 1
              /\ Cardinality(Definitions(code[JumpOf(i)][3])) = 1
              /\ \A j \in BranchesIfZero \ {i} :
                    /\ code[j][3] \notin {code[i][3], code[JumpOf(i)][3]}
                    /\ (i < j /\ j < else) => Target(j) < JumpOf(i)
                    /\ (else < j /\ j < end) => Target(j) < end
              /\ \A j \in IfBranches \ {i} :
                    /\ (i < j /\ j < else) => Target(JumpOf(j)) < JumpOf(i)
                    /\ (else < j /\ j < end) => Target(JumpOf(j)) < end

\* at the beq of an If control goes to the else label when the condition
\* left 0 in r0 and into the consequence otherwise; at the end of the
\* consequence it goes to the end label, past the alternative
IfStep ==
    /\ (Running /\ pc \in IfBranches)
          => pc' = IF regs["r0"] = 0 THEN Target(pc) ELSE pc + 1
    /\ \A i \in IfBranches :
          (Running /\ pc = JumpOf(i)) => pc' = Target(JumpOf(i))

(* C22: an If is emitted as condition, cmp r0 with 0, beq else, consequent, *)
(* b end, else label, alternate, end label; at run time the alternate runs *)
(* iff the condition evaluated to 0, the consequent otherwise, never both, *)
(* and control continues after the end label, for nested Ifs too.  The     *)
(* code is the same in every state of a run, so its shape is stated of the *)
(* first.                                                                  *)
C22_IfElse == IfShape /\ [](fault = "" /\ ReturnsAsExpected) /\ [][IfStep]_vars

\* main has returned 207: with a = 0 and b = 3 both conditions were false
C22_BothAlternatesTaken ==
    /\ program = Block(<<NestedIfMain>>)
    /\ \E i \in ReturnsOfMain :
          /\ returned[i].args[1] = 0 /\ returned[i].args[2] = 3
          /\ returned[i].r0 = 207

\* the code of each While: the start label before the condition, cmp r0,
\* #0 and beq end after it, a jump back to the start label at the end of
\* the body and the end label right after it, labels of its own, and a
\* While inside the body wholly inside it
WhileShape ==
    /\ Cardinality(WhileBranches) = NodesOfKind(program, "While")
    /\ \A i \in WhileBranches :
          LET start == Target(JumpOf(i))
          IN  /\ code[i - 1] = <<"cmpi", "r0", 0>>
              /\ IsLocalLabel(start) /\ IsLocalLabel(Target(i))
              /\ Cardinality(Definitions(code[i][3])) = 1
              /\ Cardinality(Definitions(code[JumpOf(i)][3])) = 1
              /\ \A j \in BranchesIfZero \ {i} :
                    /\ code[j][3] \notin {code[i][3], code[JumpOf(i)][3]}
                    /\ (i < j /\ j < JumpOf(i)) => Target(j) < JumpOf(i)
              /\ \A j \in WhileBranches \ {i} :
                    (i < j /\ j < JumpOf(i)) => Target(JumpOf(j)) > i

\* at the beq of a While control goes to the end label when the condition
\* left 0 in r0 and into the body otherwise; the end of the body goes back
\* to the start label, in front of the condition; and the end label is
\* reached from nowhere but the beq of its own loop
WhileStep ==
    /\ (Running /\ pc \in WhileBranches)
          => pc' = IF regs["r0"] = 0 THEN Target(pc) ELSE pc + 1
    /\ \A i \in WhileBranches :
          /\ (Running /\ pc = JumpOf(i)) => pc' = Target(JumpOf(i))
          /\ (pc' = Target(i) /\ pc # pc') => (pc = i /\ regs["r0"] = 0)

(* C23: a While is emitted as start label, condition, cmp r0 with 0, beq   *)
(* end, body, b start, end label; at run time the condition is evaluated   *)
(* again before every turn, the body runs only after it evaluated non-zero *)
(* and the loop is left, to its own end label, when it evaluates to 0.     *)
C23_While == WhileShape /\ [](fault = "" /\ ReturnsAsExpected) /\ [][WhileStep]_vars

\* loops(2, 0, 3) has returned 209: two turns of the outer loop, each with
\* two turns of the inner one and the statement after it
C23_NestedLoopsReturned ==
    /\ program = Block(<<LoopsFn, NestedWhileMain>>)
    /\ \E i \in 1..Len(returned) :
          /\ returned[i].name = "loops"
          /\ returned[i].args[1] = 2 /\ returned[i].args[3] = 3
          /\ returned[i].r0 = 209

\* the call of malloc of an array literal asks for one word more than the
\* length that is stored in the first word of the block, and gets a block
\* of its own
MallocStep ==
    (Running /\ code[pc] = <<"bl", "malloc">>)
       => /\ code[pc + 3][1] = "ldrc" /\ code[pc + 4] = <<"stri", "r0", "r4", 0>>
          /\ regs["r0"] = 4 * (code[pc + 3][3] + 1)
          /\ regs'["r0"] = heap
          /\ heap' = heap + regs["r0"]

(* C24: an ArrayLiteral of n elements asks the allocator for 4 * (n + 1)   *)
(* bytes, stores n in the first word and the value of element i in the     *)
(* word at base + 4 * (i + 1), and leaves the base in r0, also when its    *)
(* elements are array literals or calls; ArrayLength of it yields n and a  *)
(* lookup with an index below n the value of that element.                 *)
C24_ArrayLiteral == [](fault = "" /\ ReturnsAsExpected) /\ [][MallocStep]_vars

\* main has returned [[a, b], [add(b, 1)]] for a = 2 and b = 3: the outer
\* block at the start of the heap, the inner ones behind it
C24_NestedArrayBuilt ==
    /\ program = Block(<<AddFn, NestedArrayMain>>)
    /\ \E i \in ReturnsOfMain :
          /\ returned[i].args[1] = 2 /\ returned[i].args[2] = 3
          /\ returned[i].r0 = HeapBase
          /\ mem[HeapBase] = 2
          /\ mem[mem[HeapBase + 4]] = 2 /\ mem[mem[HeapBase + 4] + 8] = 3
          /\ mem[mem[HeapBase + 8]] = 1 /\ mem[mem[HeapBase + 8] + 4] = 4

\* main is `return f(e1, ..., ek);` for a function f of k parameters
MainCalls ==
    /\ Len(MainBody) = 1
    /\ MainBody[1][1] = "Return"
    /\ MainBody[1][2][1] = "Call"
    /\ Len(MainBody[1][2][3]) = Len(FunctionNamed(program, MainBody[1][2][2])[3][2])

\* the argument registers main was entered with
MainArgs == IF calls # <<>> THEN calls[1].args ELSE returned[Len(returned)].args

\* the activations of that call, open or left: they return to the end of
\* main, the calls among the arguments do not
CalledByMain ==
    {c \in {[name |-> calls[j].name, args |-> calls[j].args, lr |-> calls[j].lr] :
                j \in 2..Len(calls)}
           \cup {[name |-> returned[j].name, args |-> returned[j].args,
                  lr |-> returned[j].lr] : j \in 1..Len(returned)} :
        c.name # "main" /\ code[c.lr] = <<"movr", "sp", "fp">>}

\* main's call was entered with the values of its argument expressions
ArgumentsEvaluated ==
    MainCalls =>
        \A c \in CalledByMain :
            \A i \in 1..Len(MainBody[1][2][3]) :
                c.args[i] = EvalExpr(MainBody[1][2][3][i],
                                     Bind(MainParams, Numbers(MainArgs)),
                                     program, MaxSteps)[2]

\* the last step of the prologue of the activation on top leaves each
\* argument at the offset from fp recorded for its parameter
PrologueStep ==
    (/\ Running /\ pc > 2
     /\ code[pc] = <<"push", <<"r0", "r1", "r2", "r3">>>>
     /\ code[pc - 1] = <<"movr", "fp", "sp">>)
    => LET c       == calls[Len(calls)]
           params  == ParamNames(FunctionNamed(program, c.name)[3][2])
           initial == make_initial_function_environment(params)
       IN  /\ fault' = ""
           /\ \A i \in 1..Len(params) :
                 mem'[regs'["fp"] + initial.locals[params[i]]] = c.args[i]

(* C25: in a call with one to four arguments of a function with as many    *)
(* parameters, the register r(i-1) holds the value of the i-th argument    *)
(* expression when the function is entered, arguments that are calls       *)
(* included; the prologue stores it at the frame offset recorded for the   *)
(* i-th parameter, and a load of the parameter in the callee yields it.    *)
C25_Arguments ==
    [](fault = "" /\ ArgumentsEvaluated /\ ReturnsAsExpected) /\ [][PrologueStep]_vars

\* f4(b, f1(a), f4(a, a, b, b), a - b) has returned for a = 2 and b = 3
C25_FourArgumentsPassed ==
    /\ program = Block(<<F1Fn, F4Fn, FourArgsMain>>)
    /\ \E c \in CalledByMain : c.args = <<3, 7, 2233, -1>>
    /\ \E i \in ReturnsOfMain : returned[i].r0 = 3000 + 700 + 22330 - 1

-----------------------------------------------------------------------------
(* The locals of the programs of SpecRun.  The source-level evaluation     *)
(* covers a program that has no division and defines no function inside    *)
(* another.                                                                *)

RECURSIVE Evaluable(_, _)
Evaluable(node, inside) ==
    CASE node[1] \in {"Number", "Bool", "Null", "Undefined", "Identifier"} -> TRUE
      [] node[1] = "Division" -> FALSE
      [] node[1] = "Function" -> ~inside /\ Evaluable(node[4], TRUE)
      [] node[1] \in {"Block", "ArrayLiteral"} ->
            \A i \in 1..Len(node[2]) : Evaluable(node[2][i], inside)
      [] node[1] = "Call" -> \A i \in 1..Len(node[3]) : Evaluable(node[3][i], inside)
      [] node[1] \in {"Not", "ArrayLength", "Return"} -> Evaluable(node[2], inside)
      [] node[1] \in {"Var", "Assignment"} -> Evaluable(node[3], inside)
      [] node[1] = "If" ->
            Evaluable(node[2], inside) /\ Evaluable(node[3], inside) /\ Evaluable(node[4], inside)
      [] OTHER -> Evaluable(node[2], inside) /\ Evaluable(node[3], inside)

\* a Var inside an If or a While
RECURSIVE DeclaresUnder(_, _)
DeclaresUnder(node, conditional) ==
    CASE node[1] = "Var"      -> conditional
      [] node[1] = "Block"    -> \E i \in 1..Len(node[2]) : DeclaresUnder(node[2][i], conditional)
      [] node[1] = "Function" -> DeclaresUnder(node[4], FALSE)
      [] node[1] = "If"       -> DeclaresUnder(node[3], TRUE) \/ DeclaresUnder(node[4], TRUE)
      [] node[1] = "While"    -> DeclaresUnder(node[3], TRUE)
      [] OTHER                -> FALSE

(* C26: on every path through a function body, a path that skips a Var in  *)
(* an If branch not taken and one that runs a Var in a While body more     *)
(* than once included, every load and store of a local goes to the slot    *)
(* that holds its current value: the function returns what its source      *)
(* yields and the run does not fault.                                      *)
C26_LocalSlots ==
    Evaluable(program, FALSE) => (fault = "" /\ ReturnsAsExpected)

\* the same of the programs all of whose Vars are outside If and While
C26_DeclaredOncePerCall ==
    (Evaluable(program, FALSE) /\ ~DeclaresUnder(program, FALSE))
    => (fault = "" /\ ReturnsAsExpected)

-----------------------------------------------------------------------------
(* SpecNames: typecheck and generate_code of main.rs on the tree that      *)
(* parse returned, for every program of up to MaxProgram statements drawn  *)
(* from NameStatements, which declare, read and assign the names x, y and  *)
(* z at the top level, in the branches of an If, in the body of a While    *)
(* and in functions, nested ones included.                                 *)

MaxProgram == 3

NameStatements ==
    { Var("x", Num(1)),
      Var("y", Id("x")),
      Assignment("x", Add(Id("x"), Num(1))),
      Assignment("y", Id("x")),
      Call("putchar", <<Id("y")>>),
      \* declared in one branch, assigned in the other
      If(Id("x"),
         Block(<< Var("y", Num(1)) >>),
         Block(<< Assignment("y", Num(2)) >>)),
      \* declared in the body of a loop, read in its condition
      While(NotEqual(Id("z"), Num(0)),
            Block(<< Var("z", Num(0)) >>)),
      While(Bool(FALSE),
            Block(<< Var("z", Num(0)), Assignment("x", Id("z")) >>)),
      \* parameters and locals of a function
      Fn("f", <<"x">>,
         Block(<< Var("y", Id("x")), Assignment("x", Id("y")), Return(Id("x")) >>)),
      \* a name of the enclosing scope in a function
      Fn("g", <<>>, Block(<< Assignment("x", Num(1)) >>)),
      \* a function inside a function, each with its own names, and the
      \* inner one's local used by the outer one
      Fn("h", <<"p">>,
         Block(<< Fn("k", <<"q">>, Block(<< Var("z", Id("q")), Return(Id("z")) >>)),
                  Var("y", Id("p")),
                  Return(Id("y")) >>)),
      Fn("m", <<"p">>,
         Block(<< Fn("k", <<"q">>, Block(<< Var("z", Id("q")) >>)),
                  Return(Id("z")) >>)),
      Var("z", ArrayLength(ArrayLiteral(<<Id("x"), Id("y")>>))) }

RECURSIVE Programs(_)
Programs(n) ==
    IF n = 0 THEN { <<>> }
    ELSE { <<>> } \cup { <<s>> \o rest : s \in NameStatements, rest \in Programs(n - 1) }

InitNames ==
    /\ RunIdle /\ ThrIdle /\ TcIdle /\ GenIdle
    /\ LABEL = 0
    /\ source = <<>>
    /\ phase = "parsed"
    /\ ast \in {Block(statements) : statements \in Programs(MaxProgram)}
    /\ output = <<>>
    /\ applied = "make_full_parser"
    /\ outcome = <<>>

NextNames == Typecheck \/ GenerateCode \/ PrintOutput

SpecNames == InitNames /\ [][NextNames]_vars

NameMessages == {"Tried to use an undefined name", "Assignment to an undefined variable"}

(* C27: for a program the type checker accepts, code generation does not   *)
(* abort over an undefined name: every name the type checker found in its  *)
(* locals at an Identifier or Assignment is in the code generator's        *)
(* environment when that node is emitted.  No statement here has more than *)
(* four arguments or parameters, so an accepted program is generated.      *)
C27_NamesResolved ==
    /\ panic \notin NameMessages
    /\ phase = "checked" =>
          /\ checked[1].panic = ""
          /\ emit_ast(ast, DefaultEnvironment, LABEL).panic = ""

\* code was generated for a program that assigns in one branch the name
\* declared in the other, and then uses it and a function's parameter
C27_BranchLocalGenerated ==
    /\ phase = "generated"
    /\ ast = Block(<< Var("x", Num(1)),
                      If(Id("x"),
                         Block(<< Var("y", Num(1)) >>),
                         Block(<< Assignment("y", Num(2)) >>)),
                      Call("putchar", <<Id("y")>>) >>)

-----------------------------------------------------------------------------
(* SpecLoop: the uses of zero_or_more in the grammar.  Each use is applied  *)
(* to a text twice: its inner parser once, as one turn of the loop does,    *)
(* and the whole loop; the top-level parser is applied to the text as well. *)

\* the longest of the texts enumerated over LoopAlphabet
MaxText == 2

LoopAlphabet ==
    {" ", "\n", "/", "a", "1", ",", ";", "+", "*", "=", "!", "(", ")", "{", "}"}

\* texts that each loop goes round on several times
LoopSamples ==
    {
      \*  // c\n\t x
      <<" ", "/", "/", " ", "c", "\n", "	", " ", "x">>,
      \* , a, 1 + 2 , f(3)) ;
      <<",", " ", "a", ",", " ", "1", " ", "+", " ", "2", " ", ",", " ",
        "f", "(", "3", ")", ")", " ", ";">>,
      \* * a / 2 * !b + 1
      <<"*", " ", "a", " ", "/", " ", "2", " ", "*", " ", "!", "b", " ",
        "+", " ", "1">>,
      \* + 1 - a * 2 == 3
      <<"+", " ", "1", " ", "-", " ", "a", " ", "*", " ", "2", " ", "=",
        "=", " ", "3">>,
      \* == 1 != a + 2;
      <<"=", "=", " ", "1", " ", "!", "=", " ", "a", " ", "+", " ", "2", ";">>,
      \* , b: number, c) { }
      <<",", " ", "b", ":", " ", "n", "u", "m", "b", "e", "r", ",", " ",
        "c", ")", " ", "{", " ", "}">>,
      \* a = 1; { f(a, 2); } while (a) { a = a - 1; } // e
      <<"a", " ", "=", " ", "1", ";", " ", "{", " ", "f", "(", "a", ",",
        " ", "2", ")", ";", " ", "}", " ", "w", "h", "i", "l", "e", " ",
        "(", "a", ")", " ", "{", " ", "a", " ", "=", " ", "a", " ", "-",
        " ", "1", ";", " ", "}", " ", "/", "/", " ", "e">>,
      \* function f(x, y) { return x * y; } var z = [1, 2];
      <<"f", "u", "n", "c", "t", "i", "o", "n", " ", "f", "(", "x", ",",
        " ", "y", ")", " ", "{", " ", "r", "e", "t", "u", "r", "n", " ",
        "x", " ", "*", " ", "y", ";", " ", "}", " ", "v", "a", "r", " ",
        "z", " ", "=", " ", "[", "1", ",", " ", "2", "]", ";">> }

\* the text from its i-th character on
TextSuffixes(text) == {Drop(text, i) : i \in 0..Len(text)}

LoopTexts ==
    UNION {[1..n -> LoopAlphabet] : n \in 0..MaxText}
    \cup UNION {TextSuffixes(text) : text \in LoopSamples}

\* the uses of zero_or_more, each by the parser that makes it; the statements
\* of a block and of the whole program are the same loop
LoopUses ==
    { "make_ignored_parser", "make_args_parser", "make_product_parser",
      "make_sum_parser", "make_comparison_parser", "make_parameters_parser",
      "make_block_parser" }

\* the parser that a use of zero_or_more repeats
Iteration(use, input) ==
    CASE use = "make_ignored_parser"    -> whitespace_or_comment(input)
      [] use = "make_args_parser"       -> comma_expression(input)
      [] use = "make_product_parser"    -> product_term(input)
      [] use = "make_sum_parser"        -> sum_term(input)
      [] use = "make_comparison_parser" -> comparison_term(input)
      [] use = "make_parameters_parser" -> comma_parameter(input)
      [] use = "make_block_parser"      -> parse("make_statement_parser", input)

\* the loop of a use, run on the input
Repeated(use, input) ==
    CASE use = "make_ignored_parser"    -> make_ignored_parser(input)
      [] use = "make_args_parser"       -> more_args(<<>>, input)
      [] use = "make_product_parser"    -> product_terms(Id("a"), input)
      [] use = "make_sum_parser"        -> sum_terms(Id("a"), input)
      [] use = "make_comparison_parser" -> comparison_terms(Id("a"), input)
      [] use = "make_parameters_parser" -> more_parameters(<<>>, input)
      [] use = "make_block_parser"      -> statements_from(<<>>, input)

InitLoop ==
    /\ TcIdle /\ GenIdle /\ RunIdle /\ ThrIdle
    /\ LABEL = 0
    /\ source \in LoopTexts
    /\ phase = "read"
    /\ ast = Null
    /\ output = <<>>
    /\ applied = ""
    /\ outcome = <<>>

\* one turn of the loop of the use on the source, and the loop
ApplyLoop(use) ==
    /\ phase = "read"
    /\ applied' = use
    /\ outcome' = [iteration |-> Iteration(use, source),
                   loop      |-> Repeated(use, source)]
    /\ phase' = "applied"
    /\ UNCHANGED <<source, ast, output, tcVars, genVars, LABEL, runVars, thrVars>>

\* make_full_parser().parse(source)
ApplyFull ==
    /\ phase = "read"
    /\ applied' = "make_full_parser"
    /\ outcome' = make_full_parser(source)
    /\ phase' = "applied"
    /\ UNCHANGED <<source, ast, output, tcVars, genVars, LABEL, runVars, thrVars>>

NextLoop == (\E use \in LoopUses : ApplyLoop(use)) \/ ApplyFull

SpecLoop == InitLoop /\ [][NextLoop]_vars

\* C28: every use of zero_or_more in the grammar returns on every text: a
\* turn of its inner parser that succeeds leaves strictly less of the text
\* than it was given, the loop ends with a Some at a rest where the inner
\* parser fails (or with the panic of a parser inside it), never without an
\* end, and so the top-level parser returns on every text too.
C28_LoopsTerminate ==
    phase = "applied" =>
        IF applied = "make_full_parser"
        THEN outcome.kind \in {"Some", "Panic"}
        ELSE /\ outcome.iteration.kind \in {"Some", "None", "Panic"}
             /\ outcome.iteration.kind = "Some" =>
                    Len(outcome.iteration.rest) < Len(source)
             /\ outcome.loop.kind \in {"Some", "Panic"}
             /\ outcome.loop.kind = "Some" =>
                    /\ Len(outcome.loop.rest) <= Len(source)
                    /\ Iteration(applied, outcome.loop.rest).kind # "Some"

\* the loop of statements went round three times on a text and ended at its
\* end
C28_StatementsLoopEnded ==
    /\ phase = "applied"
    /\ applied = "make_block_parser"
    /\ outcome.loop.kind = "Some"
    /\ Len(outcome.loop.value) = 3
    /\ outcome.loop.rest = <<>>
    /\ outcome.iteration.kind = "Some"
    /\ Len(outcome.iteration.rest) < Len(source)

-----------------------------------------------------------------------------
(* SpecNumber: make_number_parser, and the top-level parser, applied to     *)
(* number literals: every short digit string and literals around 2^31.      *)

\* the longest of the digit strings enumerated
MaxDigits == 2

\* literals at and above the largest i32, and one with leading zeros
LongLiterals ==
    {
      \* 2147483647
      <<"2", "1", "4", "7", "4", "8", "3", "6", "4", "7">>,
      \* 2147483648
      <<"2", "1", "4", "7", "4", "8", "3", "6", "4", "8">>,
      \* 4294967296
      <<"4", "2", "9", "4", "9", "6", "7", "2", "9", "6">>,
      \* 4294967297
      <<"4", "2", "9", "4", "9", "6", "7", "2", "9", "7">>,
      \* 99999999999
      <<"9", "9", "9", "9", "9", "9", "9", "9", "9", "9", "9">>,
      \* 00000000000012
      <<"0", "0", "0", "0", "0", "0", "0", "0", "0", "0", "0", "0", "1", "2">> }

NumberLiterals == UNION {[1..n -> DigitSet] : n \in 1..MaxDigits} \cup LongLiterals

\* each literal alone and as an expression statement
NumberTexts == NumberLiterals \cup {literal \o <<";">> : literal \in NumberLiterals}

InitNumber ==
    /\ TcIdle /\ GenIdle /\ RunIdle /\ ThrIdle
    /\ LABEL = 0
    /\ source \in NumberTexts
    /\ phase = "read"
    /\ ast = Null
    /\ output = <<>>
    /\ applied = ""
    /\ outcome = <<>>

\* make_number_parser().parse(source)
ApplyNumber ==
    /\ phase = "read"
    /\ applied' = "make_number_parser"
    /\ outcome' = make_number_parser(source)
    /\ phase' = "applied"
    /\ UNCHANGED <<source, ast, output, tcVars, genVars, LABEL, runVars, thrVars>>

NextNumber == ApplyNumber \/ Parse

SpecNumber == InitNumber /\ [][NextNumber]_vars

\* the decimal value of a digit string
RECURSIVE Decimal(_)
Decimal(digits) ==
    IF digits = <<>> THEN 0
    ELSE 10 * Decimal(SubSeq(digits, 1, Len(digits) - 1))
         + IndexOf(Digits, digits[Len(digits)]) - 1

\* the digit string without its leading zeros
RECURSIVE Significant(_)
Significant(digits) ==
    IF digits # <<>> /\ digits[1] = "0" THEN Significant(Tail(digits)) ELSE digits

\* the digits of 2^31 - 1
MaxInt32Digits == <<"2", "1", "4", "7", "4", "8", "3", "6", "4", "7">>

\* lhs <= rhs, for digit strings of one length
RECURSIVE DigitsLeq(_, _)
DigitsLeq(lhs, rhs) ==
    \/ lhs = <<>>
    \/ IndexOf(Digits, lhs[1]) < IndexOf(Digits, rhs[1])
    \/ lhs[1] = rhs[1] /\ DigitsLeq(Tail(lhs), Tail(rhs))

\* the decimal value of the digit string is at most 2^31 - 1
FitsI32(digits) ==
    \/ Len(Significant(digits)) < Len(MaxInt32Digits)
    \/ /\ Len(Significant(digits)) = Len(MaxInt32Digits)
       /\ DigitsLeq(Significant(digits), MaxInt32Digits)

\* C29: the number-literal parser never reaches unreachable!(): every
\* lexeme that ^[0-9]+ matches becomes a Number holding a 32-bit signed
\* integer, also when its decimal value exceeds 2^31 - 1, so no literal makes
\* the parser panic.
C29_LiteralConverted ==
    /\ phase = "applied" /\ applied = "make_number_parser" =>
           /\ outcome.kind = "Some"
           /\ outcome.value[1] = "Number"
           /\ outcome.value[2] \in (-MaxInt32 - 1)..MaxInt32
    /\ phase # "panicked"

\* a literal of at most 2^31 - 1 becomes the Number of its decimal value,
\* and the text after it is left
C29_InRangeConverted ==
    phase = "applied" /\ applied = "make_number_parser" =>
        LET digits == SubSeq(source, 1, PrefixIn(source, DigitSet))
        IN  FitsI32(digits) =>
                /\ outcome.kind = "Some"
                /\ outcome.value = Num(Decimal(digits))
                /\ outcome.rest = Drop(source, Len(digits))

\* a literal above 2^31 - 1 reached unreachable!()
C29_LiteralPanicked ==
    /\ phase = "applied" /\ applied = "make_number_parser"
    /\ ~FitsI32(SubSeq(source, 1, PrefixIn(source, DigitSet)))
    /\ outcome.kind = "Panic"

-----------------------------------------------------------------------------
(* SpecKeyword: the statement parser and the atom parser applied to texts   *)
(* that begin with an identifier of which a keyword is a proper prefix.     *)

Keywords ==
    { <<"f", "u", "n", "c", "t", "i", "o", "n">>, <<"i", "f">>,
      <<"t", "r", "u", "e">>, <<"f", "a", "l", "s", "e">>,
      <<"u", "n", "d", "e", "f", "i", "n", "e", "d">>, <<"n", "u", "l", "l">>,
      <<"l", "e", "n", "g", "t", "h">>, <<"e", "l", "s", "e">>,
      <<"r", "e", "t", "u", "r", "n">>, <<"w", "h", "i", "l", "e">>,
      <<"v", "a", "r">> }

\* what follows the keyword in the identifier
Endings ==
    { <<"i", "a", "b", "l", "e">>, <<"e", "d">>, <<"a", "b", "l", "e">>,
      <<"x">>, <<"_", "1">>, <<"2">> }

\* what follows the identifier in the text: nothing, the end of an expression
\* statement, the rest of an assignment
Followers == { <<>>, <<";">>, <<" ", "=", " ", "1", ";">> }

PrefixedNames == {keyword \o ending : keyword \in Keywords, ending \in Endings}

KeywordTexts == {name \o follower : name \in PrefixedNames, follower \in Followers}

InitKeyword ==
    /\ TcIdle /\ GenIdle /\ RunIdle /\ ThrIdle
    /\ LABEL = 0
    /\ source \in KeywordTexts
    /\ phase = "read"
    /\ ast = Null
    /\ output = <<>>
    /\ applied = ""
    /\ outcome = <<>>

\* make_statement_parser().parse(source)
ApplyStatement ==
    /\ phase = "read"
    /\ applied' = "make_statement_parser"
    /\ outcome' = parse("make_statement_parser", source)
    /\ phase' = "applied"
    /\ UNCHANGED <<source, ast, output, tcVars, genVars, LABEL, runVars, thrVars>>

\* make_atom_parser().parse(source)
ApplyAtom ==
    /\ phase = "read"
    /\ applied' = "make_atom_parser"
    /\ outcome' = parse("make_atom_parser", source)
    /\ phase' = "applied"
    /\ UNCHANGED <<source, ast, output, tcVars, genVars, LABEL, runVars, thrVars>>

NextKeyword == ApplyStatement \/ ApplyAtom

SpecKeyword == InitKeyword /\ [][NextKeyword]_vars

\* the identifier that the text begins with, and what follows it
LeadingName(text) == SubSeq(text, 1, PrefixIn(text, Letters \cup DigitSet))

AfterName(text) == Drop(text, Len(LeadingName(text)))

\* C30: an identifier that has a keyword as a proper prefix is parsed as one
\* identifier, not as the keyword and the letters after it: as a statement,
\* `name = 1;` is Assignment(name, Number(1)) and `name;` is
\* Identifier(name); as an atom, `name` is Identifier(name) with nothing of
\* the name (and none of the blanks after it) left.
C30_WholeIdentifier ==
    phase = "applied" =>
        /\ applied = "make_statement_parser" /\ AfterName(source) = <<";">> =>
               outcome = ParseSome(Id(Join(LeadingName(source))), <<>>)
        /\ applied = "make_statement_parser"
           /\ AfterName(source) = <<" ", "=", " ", "1", ";">> =>
               outcome = ParseSome(Assignment(Join(LeadingName(source)), Num(1)), <<>>)
        /\ applied = "make_atom_parser" =>
               outcome = ParseSome(Id(Join(LeadingName(source))),
                                   make_ignored_parser(AfterName(source)).rest)

\* `variable = 1;` was parsed as the declaration of iable
C30_VarOfIable ==
    /\ phase = "applied" /\ applied = "make_statement_parser"
    /\ source = <<"v", "a", "r", "i", "a", "b", "l", "e", " ", "=", " ", "1", ";">>
    /\ outcome = ParseSome(Var("iable", Num(1)), <<>>)

\* `returned;` was parsed as the return of ed
C30_ReturnOfEd ==
    /\ phase = "applied" /\ applied = "make_statement_parser"
    /\ source = <<"r", "e", "t", "u", "r", "n", "e", "d", ";">>
    /\ outcome = ParseSome(Return(Id("ed")), <<>>)

\* the atom `nullable` was parsed as Null with able left
C30_NullThenAble ==
    /\ phase = "applied" /\ applied = "make_atom_parser"
    /\ source = <<"n", "u", "l", "l", "a", "b", "l", "e">>
    /\ outcome = ParseSome(Null, <<"a", "b", "l", "e">>)

\* the keywords that are followed by a token no identifier continues with
\* leave the identifier whole
C30_OtherKeywordsWhole ==
    (\E keyword \in { <<"f", "u", "n", "c", "t", "i", "o", "n">>, <<"i", "f">>,
                      <<"l", "e", "n", "g", "t", "h">>, <<"e", "l", "s", "e">>,
                      <<"w", "h", "i", "l", "e">> } :
         /\ Len(source) >= Len(keyword)
         /\ SubSeq(source, 1, Len(keyword)) = keyword)
    => C30_WholeIdentifier

====
